---- MODULE Spec2Model ----
(***************************************************************************)
(* Model of the robot command protocol engine (robot-protocol/protocol.c), *)
(* of the MQTT transport that feeds it (robot-mqtt/mqtt.c) and of the      *)
(* Wi-Fi station start-up (robot-wifi/wifi.c).                             *)
(*                                                                         *)
(* A decoded JSON document is a tree of tagged records:                    *)
(*   scalars  [t |-> tag, n |-> Int, s |-> STRING]  (tag: absent, null,    *)
(*            bool, num, str); "absent" is the NULL cJSON pointer,         *)
(*   arrays   [t |-> "arr", items |-> <<values>>],                         *)
(*   objects  [t |-> "obj", m |-> [key |-> value, ...]].                   *)
(* A JSON number holds its value in thousandths (n = value * Scale), so    *)
(* that fractional values and the truncation done by the C casts exist in  *)
(* the model.  A uint32_t is held as its 32-bit pattern read as a two's    *)
(* complement integer (the model checker's integers are 32 bits wide).     *)
(*                                                                         *)
(* root, calls and rets describe the call of the entry point that has just *)
(* returned; drive_cfg is the snapshot last handed to set_drive_config by  *)
(* an earlier call (all zero before the first), i.e. the configuration the *)
(* actuation layer holds when the next document arrives.  input and heap   *)
(* describe the same call seen from its bytes: the arguments (with the     *)
(* result of malloc) and the heap traffic; alone remembers the first call  *)
(* of a series and what it did, and last_handlers the argument of the last *)
(* call of protocol_set_handlers (a null pointer before the first).        *)
(***************************************************************************)
EXTENDS Integers, Sequences, FiniteSets, TLC

VARIABLES s_handlers, clock, conv, pc, root, calls, rets, drive_cfg,
          input, heap, alone, last_handlers

protocol_vars ==
  <<s_handlers, clock, conv, pc, root, calls, rets, drive_cfg, input, heap,
    alone, last_handlers>>

(***************************************************************************)
(* The MQTT transport (robot-mqtt/mqtt.c): its callback table, the three   *)
(* statics of the reassembly of a fragmented message, the number of        *)
(* receive buffers allocated and not freed, the event handled last with    *)
(* the buffers it allocated and freed and the calls of on_command_json it  *)
(* made, what has arrived in order of the message on the wire, and what    *)
(* the last connection event made the client and the callbacks do.         *)
(***************************************************************************)
VARIABLES mqtt_handlers, s_rx_buffer, s_rx_buffer_len, s_rx_expected_len,
          rx_allocated, rx_traffic, event, delivered, arrived, mqtt_out

mqtt_vars ==
  <<mqtt_handlers, s_rx_buffer, s_rx_buffer_len, s_rx_expected_len,
    rx_allocated, rx_traffic, event, delivered, arrived, mqtt_out>>

(***************************************************************************)
(* The Wi-Fi station (robot-wifi/wifi.c): its callback table, where        *)
(* wifi_init_sta stands and what it returned, the semaphore handle, the    *)
(* retry counter, the semaphore itself, where the event loop task stands,  *)
(* what the handler run last did, and whether an address was obtained or   *)
(* the retries were given up.  Two history variables record whether a      *)
(* got-IP event was handled and which handler gave the token that ended    *)
(* the wait of wifi_init_sta.                                              *)
(***************************************************************************)
VARIABLES wifi_handlers, wifi_pc, wifi_ret, s_ip_sem, s_retry_num, ip_sem,
          ev_pc, wifi_out, woken, got_ip_seen, wait_ended_by

wifi_vars ==
  <<wifi_handlers, wifi_pc, wifi_ret, s_ip_sem, s_retry_num, ip_sem, ev_pc,
    wifi_out, woken, got_ip_seen, wait_ended_by>>

vars == <<protocol_vars, mqtt_vars, wifi_vars>>

(***************************************************************************)
(* Bounds of the model: the longest list of steps of a sequence message,   *)
(* the last value of the millisecond clock, and the resolution of a JSON   *)
(* number (units per 1).                                                   *)
(***************************************************************************)
MaxSteps == 2

MaxClock == 1

Scale == 1000

(* The largest value the retry counter of the Wi-Fi station is let reach.  *)
MaxRetryNum == 7

WIFI_CONN_MAX_RETRY == 5

(***************************************************************************)
(* cJSON values and accessors.                                             *)
(***************************************************************************)
Absent == [t |-> "absent", n |-> 0, s |-> ""]

Null == [t |-> "null", n |-> 0, s |-> ""]

Bool(b) == [t |-> "bool", n |-> IF b THEN 1 ELSE 0, s |-> ""]

Milli(m) == [t |-> "num", n |-> m, s |-> ""]

Num(i) == Milli(i * Scale)

Str(x) == [t |-> "str", n |-> 0, s |-> x]

Arr(xs) == [t |-> "arr", items |-> xs]

Obj(members) == [t |-> "obj", m |-> members]

cJSON_IsNumber(item) == item.t = "num"

cJSON_IsString(item) == item.t = "str"

cJSON_IsBool(item) == item.t = "bool"

cJSON_IsTrue(item) == item.t = "bool" /\ item.n = 1

cJSON_IsArray(item) == item.t = "arr"

cJSON_IsObject(item) == item.t = "obj"

cJSON_GetObjectItemCaseSensitive(object, name) ==
  IF object.t = "obj" /\ name \in DOMAIN object.m
    THEN object.m[name]
    ELSE Absent

(***************************************************************************)
(* C conversions of a double (in thousandths) to the integer types.  A     *)
(* value the target type cannot hold is undefined behaviour: the build     *)
(* either wraps modulo 2^w or saturates, as conv says.                     *)
(***************************************************************************)
ConvModes == {"wrap", "saturate"}

Trunc(m) == IF m >= 0 THEN m \div Scale ELSE -((-m) \div Scale)

ToUnsigned(m, w) ==
  LET i == Trunc(m)
      top == 2^w
  IN IF i >= 0 /\ i < top THEN i
     ELSE IF conv = "wrap" THEN i % top
     ELSE IF i < 0 THEN 0 ELSE top - 1

ToInt32(m) == Trunc(m)

ToUint32(m) ==
  LET i == Trunc(m)
  IN IF i >= 0 THEN i
     ELSE IF conv = "wrap" THEN i ELSE 0

ToUint16(m) == ToUnsigned(m, 16)

ToUint8(m) == ToUnsigned(m, 8)

ToFloat(m) == m

(***************************************************************************)
(* The handler capability table and the calls made through it.             *)
(***************************************************************************)
Capabilities ==
  {"drive", "turn", "stop", "wait", "clear_queue", "set_led_hsv",
   "set_drive_config", "immediate"}

Call(fn, direction, args) == [fn |-> fn, direction |-> direction, args |-> args]

Invoke(fn, direction, args) ==
  IF fn \in s_handlers THEN <<Call(fn, direction, args)>> ELSE <<>>

Result(ok, cs) == [ok |-> ok, calls |-> cs]

esp_log_timestamp == clock

(***************************************************************************)
(* The per-kind command evaluators.  Each yields the value the C function  *)
(* returns (ok) and the capability calls it makes, in order.               *)
(***************************************************************************)
(* Variant: the direction is compared with the two recognized values and  *)
(* any other string is rejected.                                           *)
handle_drive_command_validating(command) ==
  LET direction == cJSON_GetObjectItemCaseSensitive(command, "direction")
      speed == cJSON_GetObjectItemCaseSensitive(command, "speed")
      duration == cJSON_GetObjectItemCaseSensitive(command, "duration")
      distance == cJSON_GetObjectItemCaseSensitive(command, "distance")
  IN IF ~cJSON_IsString(direction) \/ ~cJSON_IsNumber(speed)
          \/ direction.s \notin {"forward", "backward"}
       THEN Result(FALSE, <<>>)
       ELSE Result(TRUE,
                   Invoke("drive", direction.s,
                          <<ToInt32(speed.n),
                            IF cJSON_IsNumber(duration)
                              THEN ToUint32(duration.n) ELSE 0,
                            IF cJSON_IsNumber(distance)
                              THEN ToUint32(distance.n) ELSE 0>>))

(* Variant: a drive command is refused when no drive capability is bound.  *)
handle_drive_command_unbound_refused(command) ==
  LET direction == cJSON_GetObjectItemCaseSensitive(command, "direction")
      speed == cJSON_GetObjectItemCaseSensitive(command, "speed")
      duration == cJSON_GetObjectItemCaseSensitive(command, "duration")
      distance == cJSON_GetObjectItemCaseSensitive(command, "distance")
  IN IF ~cJSON_IsString(direction) \/ ~cJSON_IsNumber(speed)
          \/ "drive" \notin s_handlers
       THEN Result(FALSE, <<>>)
       ELSE Result(TRUE,
                   Invoke("drive", direction.s,
                          <<ToInt32(speed.n),
                            IF cJSON_IsNumber(duration)
                              THEN ToUint32(duration.n) ELSE 0,
                            IF cJSON_IsNumber(distance)
                              THEN ToUint32(distance.n) ELSE 0>>))

handle_drive_command(command) ==
  LET direction == cJSON_GetObjectItemCaseSensitive(command, "direction")
      speed == cJSON_GetObjectItemCaseSensitive(command, "speed")
      duration == cJSON_GetObjectItemCaseSensitive(command, "duration")
      distance == cJSON_GetObjectItemCaseSensitive(command, "distance")
  IN IF ~cJSON_IsString(direction) \/ ~cJSON_IsNumber(speed)
       THEN Result(FALSE, <<>>)
       ELSE LET speed_mm_per_s == ToInt32(speed.n)
                duration_ms == IF cJSON_IsNumber(duration)
                                 THEN ToUint32(duration.n) ELSE 0
                distance_mm == IF cJSON_IsNumber(distance)
                                 THEN ToUint32(distance.n) ELSE 0
            IN Result(TRUE,
                      Invoke("drive", direction.s,
                             <<speed_mm_per_s, duration_ms, distance_mm>>))

(* Variant: the acceptance rule asks for both a speed and a duration (||   *)
(* for && in the rejection test).                                          *)
handle_turn_command_needs_both(command) ==
  LET radius == cJSON_GetObjectItemCaseSensitive(command, "radius")
      angle == cJSON_GetObjectItemCaseSensitive(command, "angle")
      speed == cJSON_GetObjectItemCaseSensitive(command, "speed")
      duration == cJSON_GetObjectItemCaseSensitive(command, "duration")
  IN IF ~cJSON_IsNumber(radius) \/ ~cJSON_IsNumber(angle)
       THEN Result(FALSE, <<>>)
       ELSE LET speed_mm_per_s == IF cJSON_IsNumber(speed)
                                    THEN ToInt32(speed.n) ELSE 0
                duration_ms == IF cJSON_IsNumber(duration)
                                 THEN ToUint32(duration.n) ELSE 0
            IN IF speed_mm_per_s <= 0 \/ duration_ms = 0
                 THEN Result(FALSE, <<>>)
                 ELSE Result(TRUE,
                             Invoke("turn", "",
                                    <<ToInt32(radius.n), ToInt32(angle.n),
                                      speed_mm_per_s, duration_ms>>))

handle_turn_command(command) ==
  LET radius == cJSON_GetObjectItemCaseSensitive(command, "radius")
      angle == cJSON_GetObjectItemCaseSensitive(command, "angle")
      speed == cJSON_GetObjectItemCaseSensitive(command, "speed")
      duration == cJSON_GetObjectItemCaseSensitive(command, "duration")
  IN IF ~cJSON_IsNumber(radius) \/ ~cJSON_IsNumber(angle)
       THEN Result(FALSE, <<>>)
       ELSE LET radius_mm == ToInt32(radius.n)
                angle_deg == ToInt32(angle.n)
                speed_mm_per_s == IF cJSON_IsNumber(speed)
                                    THEN ToInt32(speed.n) ELSE 0
                duration_ms == IF cJSON_IsNumber(duration)
                                 THEN ToUint32(duration.n) ELSE 0
            IN IF speed_mm_per_s <= 0 /\ duration_ms = 0
                 THEN Result(FALSE, <<>>)
                 ELSE Result(TRUE,
                             Invoke("turn", "",
                                    <<radius_mm, angle_deg, speed_mm_per_s,
                                      duration_ms>>))

(* Variant: the default of v is that of s.                                 *)
handle_led_hsv_command_same_default(command) ==
  LET h == cJSON_GetObjectItemCaseSensitive(command, "h")
      s == cJSON_GetObjectItemCaseSensitive(command, "s")
      v == cJSON_GetObjectItemCaseSensitive(command, "v")
  IN IF ~cJSON_IsNumber(h)
       THEN Result(FALSE, <<>>)
       ELSE Result(TRUE,
                   Invoke("set_led_hsv", "",
                          <<ToUint16(h.n),
                            IF cJSON_IsNumber(s) THEN ToUint8(s.n) ELSE 255,
                            IF cJSON_IsNumber(v) THEN ToUint8(v.n) ELSE 255>>))

handle_led_hsv_command(command) ==
  LET h == cJSON_GetObjectItemCaseSensitive(command, "h")
      s == cJSON_GetObjectItemCaseSensitive(command, "s")
      v == cJSON_GetObjectItemCaseSensitive(command, "v")
  IN IF ~cJSON_IsNumber(h)
       THEN Result(FALSE, <<>>)
       ELSE LET hue == ToUint16(h.n)
                sat == IF cJSON_IsNumber(s) THEN ToUint8(s.n) ELSE 255
                val == IF cJSON_IsNumber(v) THEN ToUint8(v.n) ELSE 32
            IN Result(TRUE, Invoke("set_led_hsv", "", <<hue, sat, val>>))

(* Variant: the timestamp is taken from the document's now_ms field when   *)
(* that is a number, and from the clock otherwise.                         *)
handle_immediate_command_document_now(command) ==
  LET left == cJSON_GetObjectItemCaseSensitive(command, "left")
      right == cJSON_GetObjectItemCaseSensitive(command, "right")
      timeout == cJSON_GetObjectItemCaseSensitive(command, "timeout_ms")
      now == cJSON_GetObjectItemCaseSensitive(command, "now_ms")
  IN IF ~cJSON_IsNumber(left) \/ ~cJSON_IsNumber(right)
       THEN Result(FALSE, <<>>)
       ELSE Result(TRUE,
                   Invoke("immediate", "",
                          <<ToFloat(left.n), ToFloat(right.n),
                            IF cJSON_IsNumber(timeout)
                              THEN ToUint32(timeout.n) ELSE 200,
                            IF cJSON_IsNumber(now)
                              THEN ToUint32(now.n) ELSE esp_log_timestamp>>))

(* Variant: the payload is rejected only when both left and right are bad *)
(* (&& for || in the validity test).                                       *)
handle_immediate_command_either(command) ==
  LET left == cJSON_GetObjectItemCaseSensitive(command, "left")
      right == cJSON_GetObjectItemCaseSensitive(command, "right")
      timeout == cJSON_GetObjectItemCaseSensitive(command, "timeout_ms")
  IN IF ~cJSON_IsNumber(left) /\ ~cJSON_IsNumber(right)
       THEN Result(FALSE, <<>>)
       ELSE Result(TRUE,
                   Invoke("immediate", "",
                          <<ToFloat(left.n), ToFloat(right.n),
                            IF cJSON_IsNumber(timeout)
                              THEN ToUint32(timeout.n) ELSE 200,
                            esp_log_timestamp>>))

handle_immediate_command(command) ==
  LET left == cJSON_GetObjectItemCaseSensitive(command, "left")
      right == cJSON_GetObjectItemCaseSensitive(command, "right")
      timeout == cJSON_GetObjectItemCaseSensitive(command, "timeout_ms")
  IN IF ~cJSON_IsNumber(left) \/ ~cJSON_IsNumber(right)
       THEN Result(FALSE, <<>>)
       ELSE LET left_frac == ToFloat(left.n)
                right_frac == ToFloat(right.n)
                timeout_ms == IF cJSON_IsNumber(timeout)
                                THEN ToUint32(timeout.n) ELSE 200
                now_ms == esp_log_timestamp
            IN Result(TRUE,
                      Invoke("immediate", "",
                             <<left_frac, right_frac, timeout_ms, now_ms>>))

(* Variant: the wait branch hands the duration (0 when absent or not a     *)
(* number) to the wait capability of the handler table.                    *)
handle_single_command_object_wait_forwarded(command) ==
  LET kind == cJSON_GetObjectItemCaseSensitive(command, "kind")
      duration == cJSON_GetObjectItemCaseSensitive(command, "duration")
  IN IF ~cJSON_IsString(kind) THEN Result(FALSE, <<>>)
     ELSE IF kind.s = "drive" THEN handle_drive_command(command)
     ELSE IF kind.s = "turn" THEN handle_turn_command(command)
     ELSE IF kind.s = "led_hsv" THEN handle_led_hsv_command(command)
     ELSE IF kind.s = "immediate" THEN handle_immediate_command(command)
     ELSE IF kind.s = "stop" THEN Result(TRUE, Invoke("stop", "", <<>>))
     ELSE IF kind.s = "wait"
       THEN Result(TRUE,
                   Invoke("wait", "",
                          <<IF cJSON_IsNumber(duration)
                              THEN ToUint32(duration.n) ELSE 0>>))
     ELSE IF kind.s \in {"pause", "resume"} THEN Result(TRUE, <<>>)
     ELSE IF kind.s = "clear_queue"
       THEN Result(TRUE, Invoke("clear_queue", "", <<>>))
     ELSE Result(FALSE, <<>>)

(* Variant: the clear_queue branch calls the stop capability (a copied     *)
(* branch left unedited).                                                  *)
handle_single_command_object_copied(command) ==
  LET kind == cJSON_GetObjectItemCaseSensitive(command, "kind")
  IN IF ~cJSON_IsString(kind) THEN Result(FALSE, <<>>)
     ELSE IF kind.s = "drive" THEN handle_drive_command(command)
     ELSE IF kind.s = "turn" THEN handle_turn_command(command)
     ELSE IF kind.s = "led_hsv" THEN handle_led_hsv_command(command)
     ELSE IF kind.s = "immediate" THEN handle_immediate_command(command)
     ELSE IF kind.s = "stop" THEN Result(TRUE, Invoke("stop", "", <<>>))
     ELSE IF kind.s \in {"wait", "pause", "resume"} THEN Result(TRUE, <<>>)
     ELSE IF kind.s = "clear_queue"
       THEN Result(TRUE, Invoke("stop", "", <<>>))
     ELSE Result(FALSE, <<>>)

handle_single_command_object(command) ==
  LET kind == cJSON_GetObjectItemCaseSensitive(command, "kind")
  IN IF ~cJSON_IsString(kind) THEN Result(FALSE, <<>>)
     ELSE IF kind.s = "drive" THEN handle_drive_command(command)
     ELSE IF kind.s = "turn" THEN handle_turn_command(command)
     ELSE IF kind.s = "led_hsv" THEN handle_led_hsv_command(command)
     ELSE IF kind.s = "immediate" THEN handle_immediate_command(command)
     ELSE IF kind.s = "stop" THEN Result(TRUE, Invoke("stop", "", <<>>))
     ELSE IF kind.s = "wait" THEN Result(TRUE, <<>>)
     ELSE IF kind.s = "pause" THEN Result(TRUE, <<>>)
     ELSE IF kind.s = "resume" THEN Result(TRUE, <<>>)
     ELSE IF kind.s = "clear_queue"
       THEN Result(TRUE, Invoke("clear_queue", "", <<>>))
     ELSE Result(FALSE, <<>>)

(***************************************************************************)
(* The message interpreters.  An outcome is the list of values returned by *)
(* the calls of handle_single_command_object (rets) and the capability     *)
(* calls made (calls), both in order.                                      *)
(***************************************************************************)
Outcome(rs, cs) == [rets |-> rs, calls |-> cs]

(* Variant: the loop leaves at the first step it cannot evaluate (break    *)
(* for continue, and a rejected step ends the sequence).                   *)
RECURSIVE sequence_steps_abort(_, _)
sequence_steps_abort(steps, i) ==
  IF i > Len(steps) THEN Outcome(<<>>, <<>>)
  ELSE IF ~cJSON_IsObject(steps[i]) THEN Outcome(<<>>, <<>>)
  ELSE LET r == handle_single_command_object(steps[i])
           rest == IF r.ok THEN sequence_steps_abort(steps, i + 1)
                   ELSE Outcome(<<>>, <<>>)
       IN Outcome(<<r.ok>> \o rest.rets, r.calls \o rest.calls)

RECURSIVE sequence_steps(_, _)
sequence_steps(steps, i) ==
  IF i > Len(steps) THEN Outcome(<<>>, <<>>)
  ELSE LET step == steps[i]
           rest == sequence_steps(steps, i + 1)
       IN IF ~cJSON_IsObject(step) THEN rest
          ELSE LET r == handle_single_command_object(step)
               IN Outcome(<<r.ok>> \o rest.rets, r.calls \o rest.calls)

(* Variant: a repeat loop around the steps that takes the repeat count     *)
(* as written, without raising counts below 1 to 1.                        *)
RECURSIVE repeat_unclamped(_, _)
repeat_unclamped(steps, r) ==
  IF r <= 0 THEN Outcome(<<>>, <<>>)
  ELSE LET once == sequence_steps(steps, 1)
           rest == repeat_unclamped(steps, r - 1)
       IN Outcome(once.rets \o rest.rets, once.calls \o rest.calls)

handle_sequence_type_unclamped(msg) ==
  LET steps == cJSON_GetObjectItemCaseSensitive(msg, "steps")
      repeat == cJSON_GetObjectItemCaseSensitive(msg, "repeat")
  IN IF ~cJSON_IsArray(steps) THEN Outcome(<<>>, <<>>)
     ELSE repeat_unclamped(steps.items,
                           IF cJSON_IsNumber(repeat)
                             THEN Trunc(repeat.n) ELSE 1)

(* Variant: a steps field holding a single object is walked as a list of   *)
(* one step.                                                               *)
handle_sequence_type_single_step(msg) ==
  LET steps == cJSON_GetObjectItemCaseSensitive(msg, "steps")
  IN IF cJSON_IsObject(steps) THEN sequence_steps(<<steps>>, 1)
     ELSE IF ~cJSON_IsArray(steps) THEN Outcome(<<>>, <<>>)
     ELSE sequence_steps(steps.items, 1)

handle_sequence_type(msg) ==
  LET steps == cJSON_GetObjectItemCaseSensitive(msg, "steps")
  IN IF ~cJSON_IsArray(steps) THEN Outcome(<<>>, <<>>)
     ELSE sequence_steps(steps.items, 1)

ConfigNumber(drive, name) ==
  LET item == cJSON_GetObjectItemCaseSensitive(drive, name)
  IN IF cJSON_IsNumber(item) THEN ToFloat(item.n) ELSE 0

(* Variant: a boolean field given as a non-zero number counts as true.     *)
ConfigBool_truthy(drive, name) ==
  LET item == cJSON_GetObjectItemCaseSensitive(drive, name)
  IN IF (cJSON_IsBool(item) \/ cJSON_IsNumber(item)) /\ item.n # 0
       THEN 1 ELSE 0

ConfigBool(drive, name) ==
  LET item == cJSON_GetObjectItemCaseSensitive(drive, name)
  IN IF cJSON_IsBool(item) /\ cJSON_IsTrue(item) THEN 1 ELSE 0

(* Variant: the snapshot starts from the one delivered last (a static cfg  *)
(* in place of the zeroed local), so a field the document does not supply  *)
(* keeps its earlier value.                                                *)
handle_config_type_merging(msg) ==
  LET drive == cJSON_GetObjectItemCaseSensitive(msg, "drive")
      number(i, name) ==
        LET item == cJSON_GetObjectItemCaseSensitive(drive, name)
        IN IF cJSON_IsNumber(item) THEN ToFloat(item.n) ELSE drive_cfg[i]
      boolean(i, name) ==
        LET item == cJSON_GetObjectItemCaseSensitive(drive, name)
        IN IF cJSON_IsBool(item) THEN item.n ELSE drive_cfg[i]
  IN IF ~cJSON_IsObject(drive) THEN Outcome(<<>>, <<>>)
     ELSE LET cfg == <<number(1, "wheel_track_mm"),
                       number(2, "wheel_radius_mm"),
                       number(3, "min_speed_mm_per_s"),
                       number(4, "max_speed_mm_per_s"),
                       number(5, "ticks_per_revolution"),
                       boolean(6, "brake_on_stop"),
                       boolean(7, "enable_speed_control"),
                       number(8, "speed_kp"),
                       number(9, "speed_ki"),
                       number(10, "motor_gain_left"),
                       number(11, "motor_gain_right")>>
          IN Outcome(<<>>, Invoke("set_drive_config", "", cfg))

(* Variant: without a drive object the fields are read from the message    *)
(* itself.                                                                 *)
handle_config_type_flat(msg) ==
  LET field == cJSON_GetObjectItemCaseSensitive(msg, "drive")
      drive == IF cJSON_IsObject(field) THEN field ELSE msg
      cfg == <<ConfigNumber(drive, "wheel_track_mm"),
               ConfigNumber(drive, "wheel_radius_mm"),
               ConfigNumber(drive, "min_speed_mm_per_s"),
               ConfigNumber(drive, "max_speed_mm_per_s"),
               ConfigNumber(drive, "ticks_per_revolution"),
               ConfigBool(drive, "brake_on_stop"),
               ConfigBool(drive, "enable_speed_control"),
               ConfigNumber(drive, "speed_kp"),
               ConfigNumber(drive, "speed_ki"),
               ConfigNumber(drive, "motor_gain_left"),
               ConfigNumber(drive, "motor_gain_right")>>
  IN Outcome(<<>>, Invoke("set_drive_config", "", cfg))

handle_config_type(msg) ==
  LET drive == cJSON_GetObjectItemCaseSensitive(msg, "drive")
  IN IF ~cJSON_IsObject(drive) THEN Outcome(<<>>, <<>>)
     ELSE LET cfg == <<ConfigNumber(drive, "wheel_track_mm"),
                       ConfigNumber(drive, "wheel_radius_mm"),
                       ConfigNumber(drive, "min_speed_mm_per_s"),
                       ConfigNumber(drive, "max_speed_mm_per_s"),
                       ConfigNumber(drive, "ticks_per_revolution"),
                       ConfigBool(drive, "brake_on_stop"),
                       ConfigBool(drive, "enable_speed_control"),
                       ConfigNumber(drive, "speed_kp"),
                       ConfigNumber(drive, "speed_ki"),
                       ConfigNumber(drive, "motor_gain_left"),
                       ConfigNumber(drive, "motor_gain_right")>>
          IN Outcome(<<>>, Invoke("set_drive_config", "", cfg))

(* Variant: without a command object the message itself is evaluated as    *)
(* the command.                                                            *)
handle_command_type_flat(msg) ==
  LET command == cJSON_GetObjectItemCaseSensitive(msg, "command")
      r == handle_single_command_object(IF cJSON_IsObject(command)
                                          THEN command ELSE msg)
  IN Outcome(<<r.ok>>, r.calls)

handle_command_type(msg) ==
  LET command == cJSON_GetObjectItemCaseSensitive(msg, "command")
  IN IF ~cJSON_IsObject(command) THEN Outcome(<<>>, <<>>)
     ELSE LET r == handle_single_command_object(command)
          IN Outcome(<<r.ok>>, r.calls)

(* Variant: a type that is none of the three names is handled as a         *)
(* command message.                                                        *)
handle_command_default_command(msg, type) ==
  IF type.s = "sequence" THEN handle_sequence_type(msg)
  ELSE IF type.s = "config" THEN handle_config_type(msg)
  ELSE handle_command_type(msg)

handle_command(msg, type) ==
  IF type.s = "command" THEN handle_command_type(msg)
  ELSE IF type.s = "sequence" THEN handle_sequence_type(msg)
  ELSE IF type.s = "config" THEN handle_config_type(msg)
  ELSE Outcome(<<>>, <<>>)

(* What one call of protocol_handle_command_json does with the tree that   *)
(* cJSON_Parse returned (Absent: the parse failed).                        *)
dispatch(parsed) ==
  IF parsed = Absent THEN Outcome(<<>>, <<>>)
  ELSE LET type == cJSON_GetObjectItemCaseSensitive(parsed, "type")
       IN IF ~cJSON_IsString(type) THEN Outcome(<<>>, <<>>)
          ELSE handle_command(parsed, type)

(***************************************************************************)
(* The input text.  A buffer is a sequence of lexical units (each one or   *)
(* more bytes of the wire text): a punctuation mark, a complete string     *)
(* literal, a number literal (value in thousandths), one of the literals   *)
(* true, false and null, or Garbled, bytes that begin no JSON token (a     *)
(* string without its closing quote, a cut-off literal, a stray sign).     *)
(* cJSON_Parse is cJSON_ParseWithOpts(value, 0, 0): it decodes the first   *)
(* value of the text and does not look at what follows it.  A result of    *)
(* the parser is [ok, item, next], next being the index after the value.   *)
(***************************************************************************)
Punct(c) == [k |-> "punct", s |-> c, n |-> 0]

Quoted(x) == [k |-> "string", s |-> x, n |-> 0]

Number(m) == [k |-> "number", s |-> "", n |-> m]

Literal(x) == [k |-> "literal", s |-> x, n |-> 0]

Garbled == [k |-> "garbled", s |-> "", n |-> 0]

ParseFail == [ok |-> FALSE, item |-> Absent, next |-> 0]

Parsed(item, next) == [ok |-> TRUE, item |-> item, next |-> next]

At(text, i) == IF i >= 1 /\ i <= Len(text) THEN text[i] ELSE Garbled

NoMembers == [name \in {} |-> Absent]

RECURSIVE parse_value(_, _)
RECURSIVE parse_array(_, _, _)
RECURSIVE parse_object(_, _, _)

parse_value(text, i) ==
  LET c == At(text, i)
  IN IF c.k = "string" THEN Parsed(Str(c.s), i + 1)
     ELSE IF c.k = "number" THEN Parsed(Milli(c.n), i + 1)
     ELSE IF c = Literal("null") THEN Parsed(Null, i + 1)
     ELSE IF c = Literal("true") THEN Parsed(Bool(TRUE), i + 1)
     ELSE IF c = Literal("false") THEN Parsed(Bool(FALSE), i + 1)
     ELSE IF c = Punct("[")
       THEN IF At(text, i + 1) = Punct("]") THEN Parsed(Arr(<<>>), i + 2)
            ELSE parse_array(text, i + 1, <<>>)
     ELSE IF c = Punct("{")
       THEN IF At(text, i + 1) = Punct("}")
              THEN Parsed(Obj(NoMembers), i + 2)
              ELSE parse_object(text, i + 1, NoMembers)
     ELSE ParseFail

(* The items of an array from index i on; items holds those decoded.       *)
parse_array(text, i, items) ==
  LET v == parse_value(text, i)
  IN IF ~v.ok THEN ParseFail
     ELSE IF At(text, v.next) = Punct(",")
       THEN parse_array(text, v.next + 1, Append(items, v.item))
     ELSE IF At(text, v.next) = Punct("]")
       THEN Parsed(Arr(Append(items, v.item)), v.next + 1)
     ELSE ParseFail

(* The members of an object from index i on.  A later member with a name   *)
(* already present stays behind the first one in the child list, where the *)
(* lookup by name never reaches it.                                        *)
parse_object(text, i, members) ==
  LET name == At(text, i)
      v == parse_value(text, i + 2)
      grown == members @@ (name.s :> v.item)
  IN IF name.k # "string" \/ At(text, i + 1) # Punct(":") THEN ParseFail
     ELSE IF ~v.ok THEN ParseFail
     ELSE IF At(text, v.next) = Punct(",")
       THEN parse_object(text, v.next + 1, grown)
     ELSE IF At(text, v.next) = Punct("}")
       THEN Parsed(Obj(grown), v.next + 1)
     ELSE ParseFail

cJSON_Parse(text) ==
  LET v == parse_value(text, 1)
  IN IF v.ok THEN v.item ELSE Absent

(***************************************************************************)
(* One call of protocol_handle_command_json(data, len), from the bytes:    *)
(* data is [ptr, bytes], buffer is what malloc returns ("NULL": no         *)
(* memory).  The result holds the tree cJSON_Parse built (Absent: none),   *)
(* the outcome of the interpreters, and the heap traffic of the call: the  *)
(* number of buffers allocated and freed and of trees built and deleted.   *)
(***************************************************************************)
Heap(mallocs, frees, trees, deletes) ==
  [mallocs |-> mallocs, frees |-> frees, trees |-> trees,
   deletes |-> deletes]

Run(tree, out, traffic) ==
  [root |-> tree, rets |-> out.rets, calls |-> out.calls, heap |-> traffic]

(* Variant: the text is parsed in place, as a terminated string, without   *)
(* the copy that ends it after len bytes.                                  *)
protocol_handle_command_json_run_in_place(data, len, buffer) ==
  IF data.ptr = "NULL" \/ len = 0
    THEN Run(Absent, Outcome(<<>>, <<>>), Heap(0, 0, 0, 0))
  ELSE LET tree == cJSON_Parse(data.bytes)
           type == cJSON_GetObjectItemCaseSensitive(tree, "type")
       IN IF tree = Absent
            THEN Run(Absent, Outcome(<<>>, <<>>), Heap(0, 0, 0, 0))
          ELSE IF ~cJSON_IsString(type)
            THEN Run(tree, Outcome(<<>>, <<>>), Heap(0, 0, 1, 1))
          ELSE Run(tree, handle_command(tree, type), Heap(0, 0, 1, 1))

(* Variant: the early return for a missing type forgets the tree.          *)
protocol_handle_command_json_run_leaking(data, len, buffer) ==
  IF data.ptr = "NULL" \/ len = 0
    THEN Run(Absent, Outcome(<<>>, <<>>), Heap(0, 0, 0, 0))
  ELSE IF buffer = "NULL"
    THEN Run(Absent, Outcome(<<>>, <<>>), Heap(0, 0, 0, 0))
  ELSE LET copy == SubSeq(data.bytes, 1, len)
           tree == cJSON_Parse(copy)
           type == cJSON_GetObjectItemCaseSensitive(tree, "type")
       IN IF tree = Absent
            THEN Run(Absent, Outcome(<<>>, <<>>), Heap(1, 1, 0, 0))
          ELSE IF ~cJSON_IsString(type)
            THEN Run(tree, Outcome(<<>>, <<>>), Heap(1, 1, 1, 0))
          ELSE Run(tree, handle_command(tree, type), Heap(1, 1, 1, 1))

protocol_handle_command_json_run(data, len, buffer) ==
  IF data.ptr = "NULL" \/ len = 0
    THEN Run(Absent, Outcome(<<>>, <<>>), Heap(0, 0, 0, 0))
  ELSE IF buffer = "NULL"
    THEN Run(Absent, Outcome(<<>>, <<>>), Heap(0, 0, 0, 0))
  ELSE LET copy == SubSeq(data.bytes, 1, len)
           tree == cJSON_Parse(copy)
           type == cJSON_GetObjectItemCaseSensitive(tree, "type")
       IN IF tree = Absent
            THEN Run(Absent, Outcome(<<>>, <<>>), Heap(1, 1, 0, 0))
          ELSE IF ~cJSON_IsString(type)
            THEN Run(tree, Outcome(<<>>, <<>>), Heap(1, 1, 1, 1))
          ELSE Run(tree, handle_command(tree, type), Heap(1, 1, 1, 1))

(***************************************************************************)
(* The documents delivered to the entry point.                             *)
(***************************************************************************)
DriveCommands ==
  {Obj([kind |-> Str("drive"), direction |-> d, speed |-> sp,
        duration |-> du, distance |-> di]) :
     d \in {Str("forward"), Str("backward"), Str("sideways"), Num(1), Absent},
     sp \in {Num(150), Str("fast"), Absent},
     du \in {Absent, Num(2000), Num(-5), Str("long")},
     di \in {Absent, Num(1000), Milli(1500)}}

TurnCommands ==
  {Obj([kind |-> Str("turn"), radius |-> ra[1], angle |-> ra[2],
        speed |-> sp, duration |-> du]) :
     ra \in {<<Num(200), Num(90)>>, <<Absent, Num(90)>>,
             <<Num(200), Str("right")>>},
     sp \in {Absent, Num(0), Num(150), Num(-5), Str("fast")},
     du \in {Absent, Num(0), Num(500), Num(-5), Null}}

LedCommands ==
  {Obj([kind |-> Str("led_hsv"), h |-> h, s |-> s, v |-> v]) :
     h \in {Num(120), Num(70000), Absent, Str("red")},
     s \in {Absent, Num(200), Num(300), Str("full")},
     v \in {Absent, Num(10), Bool(TRUE)}}

ImmediateCommands ==
  {Obj([kind |-> Str("immediate"), left |-> l, right |-> r,
        timeout_ms |-> t, now_ms |-> n]) :
     l \in {Milli(-100), Absent},
     r \in {Milli(300), Str("full")},
     t \in {Absent, Num(250), Str("never")},
     n \in {Absent, Num(123456)}}

PlainCommands ==
  {Obj([kind |-> k, duration |-> du]) :
     k \in {Str("stop"), Str("clear_queue"), Str("wait"), Str("pause"),
            Str("resume"), Str("jump"), Str("Stop"), Num(1), Absent},
     du \in {Absent, Num(1000)}}

Commands ==
  DriveCommands \cup TurnCommands \cup LedCommands \cup ImmediateCommands
    \cup PlainCommands

DriveObjects ==
  {Obj([wheel_track_mm |-> Num(120), enable_speed_control |-> Bool(TRUE)]),
   Obj([wheel_track_mm |-> Str("wide"), brake_on_stop |-> Num(1)])}

ConfigMessages ==
  {Obj([type |-> Str("config"), drive |-> d]) :
     d \in DriveObjects \cup {Absent, Str("none")}}

CommandMessages ==
  {Obj([type |-> Str("command"), command |-> c]) :
     c \in Commands \cup {Absent, Str("stop")}}

BareStop == Obj([kind |-> Str("stop"), duration |-> Absent])

BareClearQueue == Obj([kind |-> Str("clear_queue"), duration |-> Absent])

BareSteps ==
  {BareStop, BareClearQueue,
   Obj([kind |-> Str("drive"), direction |-> Str("forward"),
        speed |-> Num(150), duration |-> Absent, distance |-> Num(1000)]),
   Obj([kind |-> Str("jump"), duration |-> Absent]),
   Obj([kind |-> Str("turn"), radius |-> Num(200), angle |-> Num(90),
        speed |-> Num(0), duration |-> Num(0)])}

TypedSteps ==
  {Obj([type |-> Str("command"), command |-> BareStop]),
   Obj([type |-> Str("config"),
        drive |-> Obj([wheel_track_mm |-> Num(120),
                       enable_speed_control |-> Bool(TRUE)])]),
   Obj([type |-> Str("sequence"), repeat |-> Num(2),
        steps |-> Arr(<<BareStop, BareClearQueue>>)])}

Steps == BareSteps \cup TypedSteps \cup {Num(7)}

StepLists == UNION {[1..k -> Steps] : k \in 0..MaxSteps}

RepeatValues == {Absent, Num(0), Num(-5), Num(2), Str("twice")}

SequenceMessages ==
  {Obj([type |-> Str("sequence"), repeat |-> r, steps |-> Arr(ss)]) :
     r \in RepeatValues, ss \in StepLists}
    \cup {Obj([type |-> Str("sequence"), repeat |-> Num(2), steps |-> x]) :
            x \in {Absent, BareStop, Str("stop"), Null}}

UntypedMessages ==
  {Obj([type |-> t, command |-> BareStop, kind |-> Str("stop"),
        steps |-> Arr(<<BareStop>>),
        drive |-> Obj([wheel_track_mm |-> Num(120)])]) :
     t \in {Absent, Null, Num(1), Str(""), Str("bogus"), Str("Command")}}

FlatMessages ==
  {Obj([type |-> Str("command"), command |-> c, kind |-> k,
        direction |-> Str("forward"), speed |-> Num(100)]) :
     c \in {Absent, Null, Str("stop"), Arr(<<BareStop>>)},
     k \in {Str("stop"), Str("drive")}}

(* Configuration documents: the drive object of the README's example, the  *)
(* same with one field alone, with one field of the wrong type, with       *)
(* both booleans false and with no field at all, and messages whose drive  *)
(* field is not an object while drive fields sit at the top level.         *)
ConfigFields ==
  <<"wheel_track_mm", "wheel_radius_mm", "min_speed_mm_per_s",
    "max_speed_mm_per_s", "ticks_per_revolution", "brake_on_stop",
    "enable_speed_control", "speed_kp", "speed_ki", "motor_gain_left",
    "motor_gain_right">>

FieldNames == {ConfigFields[i] : i \in DOMAIN ConfigFields}

FullDrive ==
  Obj([wheel_track_mm |-> Num(120), wheel_radius_mm |-> Num(30),
       min_speed_mm_per_s |-> Num(20), max_speed_mm_per_s |-> Num(200),
       ticks_per_revolution |-> Num(360), brake_on_stop |-> Bool(TRUE),
       enable_speed_control |-> Bool(TRUE), speed_kp |-> Milli(500),
       speed_ki |-> Milli(100), motor_gain_left |-> Num(1),
       motor_gain_right |-> Num(1)])

OnlyField(name) ==
  Obj([x \in FieldNames |-> IF x = name THEN FullDrive.m[x] ELSE Absent])

Mistyped(name, wrong) ==
  Obj([x \in FieldNames |-> IF x = name THEN wrong ELSE FullDrive.m[x]])

WrongValues(name) ==
  IF cJSON_IsBool(FullDrive.m[name])
    THEN {Num(1), Str("true"), Null}
    ELSE {Str("12"), Bool(TRUE), Null}

RichDriveObjects ==
  {FullDrive}
    \cup {OnlyField(name) : name \in FieldNames}
    \cup UNION {{Mistyped(name, w) : w \in WrongValues(name)} :
                  name \in FieldNames}
    \cup {Obj([x \in FieldNames |->
                 IF cJSON_IsBool(FullDrive.m[x]) THEN Bool(FALSE)
                 ELSE FullDrive.m[x]]),
          Obj([x \in FieldNames |-> Absent])}
    \cup DriveObjects

DrivelessMessages ==
  {Obj([type |-> Str("config"), drive |-> x, wheel_track_mm |-> Num(120),
        brake_on_stop |-> Bool(TRUE)]) :
     x \in {Absent, Null, Str("none"), Num(1), Arr(<<FullDrive>>)}}

ConfigDocuments ==
  {Obj([type |-> Str("config"), drive |-> d]) : d \in RichDriveObjects}
    \cup ConfigMessages \cup DrivelessMessages

Documents ==
  CommandMessages \cup SequenceMessages \cup ConfigMessages
    \cup UntypedMessages \cup FlatMessages \cup {Absent, Arr(<<BareStop>>)}

(***************************************************************************)
(* Wire texts handed to the entry point as bytes: complete documents of    *)
(* each type, documents that are not objects, the stop document with one   *)
(* unit garbled or missing, and the stop document followed by more bytes.  *)
(* Every prefix of every text is delivered as well (len <= the buffer).    *)
(***************************************************************************)
Member(name, value) == <<Quoted(name), Punct(":")>> \o value

Braced(members) == <<Punct("{")>> \o members \o <<Punct("}")>>

Comma == <<Punct(",")>>

StepText(kind) == Braced(Member("kind", <<Quoted(kind)>>))

StopText ==
  Braced(Member("type", <<Quoted("command")>>) \o Comma
           \o Member("command", StepText("stop")))

SequenceText ==
  Braced(Member("type", <<Quoted("sequence")>>) \o Comma
           \o Member("steps",
                     <<Punct("[")>> \o StepText("jump") \o Comma
                       \o StepText("stop") \o <<Punct("]")>>))

ConfigText ==
  Braced(Member("type", <<Quoted("config")>>) \o Comma
           \o Member("drive",
                     Braced(Member("wheel_track_mm", <<Number(120000)>>)
                              \o Comma
                              \o Member("brake_on_stop",
                                        <<Literal("true")>>))))

UnknownTypeText ==
  Braced(Member("type", <<Quoted("bogus")>>) \o Comma
           \o Member("command", StepText("stop")))

MissingTypeText == Braced(Member("command", StepText("stop")))

NullTypeText ==
  Braced(Member("type", <<Literal("null")>>) \o Comma
           \o Member("command", StepText("stop")))

ArrayRootText == <<Punct("[")>> \o StopText \o <<Punct("]")>>

ScalarRootText == <<Quoted("stop")>>

CompleteTexts ==
  {StopText, SequenceText, ConfigText, UnknownTypeText, MissingTypeText,
   NullTypeText, ArrayRootText, ScalarRootText}

GarbledAt(text, i) == [text EXCEPT ![i] = Garbled]

MissingAt(text, i) == SubSeq(text, 1, i - 1) \o SubSeq(text, i + 1, Len(text))

BrokenTexts ==
  {GarbledAt(StopText, i) : i \in DOMAIN StopText}
    \cup {MissingAt(StopText, i) : i \in DOMAIN StopText}

FollowedTexts ==
  {StopText \o <<Punct("}")>>, StopText \o <<Garbled>>,
   StopText \o ConfigText}

Texts == CompleteTexts \cup BrokenTexts \cup FollowedTexts

Bytes(text) == [ptr |-> "valid", bytes |-> text]

EntryCalls ==
  UNION {{[data |-> Bytes(t), len |-> n, buffer |-> b] :
            n \in 0..Len(t), b \in {"valid", "NULL"}} : t \in Texts}
    \cup {[data |-> [ptr |-> "NULL", bytes |-> <<>>], len |-> 5,
           buffer |-> "valid"]}

(***************************************************************************)
(* The encoder of immediate commands.  Its definition is not among the     *)
(* sources; it is modelled from its declaration and documentation: one     *)
(* document of type command holding an immediate command, left and right   *)
(* printed with three decimals, the two integers printed as they are, cut  *)
(* to what the buffer holds before its terminator.  left_frac and          *)
(* right_frac are given in ten-thousandths, the printed numbers are in     *)
(* thousandths; buffer_size counts units of text.                          *)
(***************************************************************************)
ThreeDecimals(x) ==
  IF x >= 0 THEN (x + 5) \div 10 ELSE -((5 - x) \div 10)

protocol_generate_immediate_command(buffer_size, left_frac, right_frac, timeout_ms, now_ms) ==
  LET command ==
        Braced(Member("kind", <<Quoted("immediate")>>) \o Comma
                 \o Member("left", <<Number(ThreeDecimals(left_frac))>>)
                 \o Comma
                 \o Member("right", <<Number(ThreeDecimals(right_frac))>>)
                 \o Comma
                 \o Member("timeout_ms", <<Number(timeout_ms * Scale)>>)
                 \o Comma
                 \o Member("now_ms", <<Number(now_ms * Scale)>>))
      document ==
        Braced(Member("type", <<Quoted("command")>>) \o Comma
                 \o Member("command", command))
  IN IF buffer_size > Len(document) THEN document
     ELSE SubSeq(document, 1, buffer_size - 1)

EncoderInputs ==
  [buffer_size : {1, 16, 29, 30, 40},
   left_frac : {-1000, 3004, 3006, 10000},
   right_frac : {3000, -12346},
   timeout_ms : {0, 200, 2000000},
   now_ms : {0, 123456}]

Encoded(e) ==
  protocol_generate_immediate_command(e.buffer_size, e.left_frac,
                                      e.right_frac, e.timeout_ms, e.now_ms)

AllBound == Capabilities

HandlerTables ==
  {AllBound, {}, AllBound \ {"drive", "stop"}, {"stop", "set_drive_config"}}

(***************************************************************************)
(* The state machine.                                                      *)
(***************************************************************************)
ZeroConfig == <<0, 0, 0, 0, 0, 0, 0, 0, 0, 0, 0>>

NoCall ==
  [data |-> [ptr |-> "NULL", bytes |-> <<>>], len |-> 0, buffer |-> "NULL"]

NotYet ==
  [set |-> FALSE, input |-> NoCall, handlers |-> {}, clock |-> 0,
   calls |-> <<>>, rets |-> <<>>]

NoBuffer == [ptr |-> "NULL", bytes |-> <<>>]

NoEvent ==
  [event_id |-> "none", data |-> <<>>, data_len |-> 0, total_data_len |-> 0,
   current_data_offset |-> 0]

NothingArrived == [total |-> 0, bytes |-> <<>>]

NoTraffic == [mallocs |-> 0, frees |-> 0]

Init ==
  /\ s_handlers = {}
  /\ clock = 0
  /\ conv \in ConvModes
  /\ pc = "idle"
  /\ root = Absent
  /\ calls = <<>>
  /\ rets = <<>>
  /\ drive_cfg = ZeroConfig
  /\ input = NoCall
  /\ heap = Heap(0, 0, 0, 0)
  /\ alone = NotYet
  /\ last_handlers = [ptr |-> "NULL", table |-> {}]
  /\ mqtt_handlers = {}
  /\ s_rx_buffer = NoBuffer
  /\ s_rx_buffer_len = 0
  /\ s_rx_expected_len = 0
  /\ rx_allocated = 0
  /\ rx_traffic = NoTraffic
  /\ event = NoEvent
  /\ delivered = <<>>
  /\ arrived = NothingArrived
  /\ mqtt_out = <<>>
  /\ wifi_handlers = {}
  /\ wifi_pc = "start"
  /\ wifi_ret = "none"
  /\ s_ip_sem = "NULL"
  /\ s_retry_num = 0
  /\ ip_sem = [state |-> "none", tokens |-> 0, giver |-> "none"]
  /\ ev_pc = "idle"
  /\ wifi_out = <<>>
  /\ woken = FALSE
  /\ got_ip_seen = FALSE
  /\ wait_ended_by = "none"

(* Variant: the new table is merged into the one installed before.         *)
protocol_set_handlers_merging(handlers) ==
  /\ pc = "idle"
  /\ s_handlers' = IF handlers.ptr # "NULL"
                     THEN s_handlers \cup handlers.table ELSE s_handlers
  /\ last_handlers' = handlers
  /\ UNCHANGED <<clock, conv, pc, root, calls, rets, drive_cfg, input, heap,
                 alone>>
  /\ UNCHANGED <<mqtt_vars, wifi_vars>>

protocol_set_handlers(handlers) ==
  /\ pc = "idle"
  /\ s_handlers' = IF handlers.ptr # "NULL" THEN handlers.table ELSE {}
  /\ last_handlers' = handlers
  /\ UNCHANGED <<clock, conv, pc, root, calls, rets, drive_cfg, input, heap,
                 alone>>
  /\ UNCHANGED <<mqtt_vars, wifi_vars>>

(* Variant: a message that makes no call (a dropped one) clears the        *)
(* handler table, as protocol_set_handlers(NULL) would.                    *)
protocol_handle_command_json_unbinding(parsed) ==
  /\ pc = "idle"
  /\ LET out == dispatch(parsed)
     IN /\ calls' = out.calls
        /\ rets' = out.rets
        /\ s_handlers' = IF out.calls = <<>> THEN {} ELSE s_handlers
  /\ root' = parsed
  /\ pc' = "returned"
  /\ UNCHANGED <<clock, conv, drive_cfg, input, heap, alone, last_handlers>>
  /\ UNCHANGED <<mqtt_vars, wifi_vars>>

protocol_handle_command_json(parsed) ==
  /\ pc = "idle"
  /\ LET out == dispatch(parsed)
     IN /\ calls' = out.calls
        /\ rets' = out.rets
  /\ root' = parsed
  /\ pc' = "returned"
  /\ UNCHANGED <<s_handlers, last_handlers, clock, conv, drive_cfg, input, heap, alone>>
  /\ UNCHANGED <<mqtt_vars, wifi_vars>>

protocol_handle_command_json_bytes(data, len, buffer) ==
  /\ pc = "idle"
  /\ LET run == protocol_handle_command_json_run(data, len, buffer)
     IN /\ root' = run.root
        /\ calls' = run.calls
        /\ rets' = run.rets
        /\ heap' = run.heap
  /\ input' = [data |-> data, len |-> len, buffer |-> buffer]
  /\ pc' = "returned"
  /\ UNCHANGED <<s_handlers, last_handlers, clock, conv, drive_cfg>>
  /\ UNCHANGED <<mqtt_vars, wifi_vars>>

Delivered(cs) == SelectSeq(cs, LAMBDA c : c.fn = "set_drive_config")

Returned ==
  /\ pc = "returned"
  /\ pc' = "idle"
  /\ root' = Absent
  /\ calls' = <<>>
  /\ rets' = <<>>
  /\ drive_cfg' = IF Delivered(calls) = <<>> THEN drive_cfg
                  ELSE Delivered(calls)[Len(Delivered(calls))].args
  /\ input' = NoCall
  /\ heap' = Heap(0, 0, 0, 0)
  /\ UNCHANGED <<s_handlers, last_handlers, clock, conv, alone>>
  /\ UNCHANGED <<mqtt_vars, wifi_vars>>

Tick ==
  /\ pc = "idle"
  /\ clock < MaxClock
  /\ clock' = clock + 1
  /\ UNCHANGED <<s_handlers, last_handlers, conv, pc, root, calls, rets, drive_cfg, input,
                 heap, alone>>
  /\ UNCHANGED <<mqtt_vars, wifi_vars>>

SetHandlers ==
  \E h \in {[ptr |-> "NULL", table |-> {}]}
          \cup {[ptr |-> "valid", table |-> t] : t \in HandlerTables} :
    protocol_set_handlers(h)

HandleCommandJson == \E d \in Documents : protocol_handle_command_json(d)

Next == SetHandlers \/ HandleCommandJson \/ Returned \/ Tick

Spec == Init /\ [][Next]_vars

(***************************************************************************)
(* The same entry points under every handler table: each of the eight      *)
(* members of protocol_handlers_t bound or NULL, with one-command and      *)
(* configuration messages as the documents.                                *)
(***************************************************************************)
AnyHandlerTables == SUBSET Capabilities

UnitMessages == CommandMessages \cup ConfigMessages

SetAnyHandlers ==
  \E h \in {[ptr |-> "NULL", table |-> {}]}
             \cup {[ptr |-> "valid", table |-> t] : t \in AnyHandlerTables} :
    protocol_set_handlers(h)

HandleUnitJson == \E d \in UnitMessages : protocol_handle_command_json(d)

NextTables == SetAnyHandlers \/ HandleUnitJson \/ Returned

SpecTables == Init /\ [][NextTables]_vars

(***************************************************************************)
(* The same entry points with configuration documents only: one message    *)
(* after another, each against the snapshot the one before delivered.      *)
(***************************************************************************)
HandleConfigJson ==
  \E d \in ConfigDocuments : protocol_handle_command_json(d)

NextConfig == SetHandlers \/ HandleConfigJson \/ Returned

SpecConfig == Init /\ [][NextConfig]_vars

(***************************************************************************)
(* The entry point called with bytes: every text, cut at every length,     *)
(* with and without memory for the copy.                                   *)
(***************************************************************************)
HandleBytes ==
  /\ \E c \in EntryCalls :
       protocol_handle_command_json_bytes(c.data, c.len, c.buffer)
  /\ UNCHANGED alone

NextEntry == SetHandlers \/ HandleBytes \/ Returned \/ Tick

SpecEntry == Init /\ [][NextEntry]_vars

(***************************************************************************)
(* A series of messages, one after another: good ones, dropped ones and    *)
(* malformed ones in every order.  The first delivery of a behaviour is    *)
(* kept, with the table and the clock it ran under, as the outcome of that *)
(* message delivered alone.                                                *)
(***************************************************************************)
RadiusConfigText ==
  Braced(Member("type", <<Quoted("config")>>) \o Comma
           \o Member("drive",
                     Braced(Member("wheel_radius_mm", <<Number(33000)>>))))

SeriesCalls ==
  {[data |-> Bytes(t), len |-> Len(t), buffer |-> "valid"] :
     t \in {StopText, SequenceText, ConfigText, RadiusConfigText,
            UnknownTypeText, GarbledAt(StopText, 3)}}
    \cup {[data |-> Bytes(StopText), len |-> 5, buffer |-> "valid"],
          [data |-> Bytes(StopText), len |-> Len(StopText),
           buffer |-> "NULL"]}

HandleSeries ==
  /\ \E c \in SeriesCalls :
       protocol_handle_command_json_bytes(c.data, c.len, c.buffer)
  /\ alone' = IF alone.set THEN alone
              ELSE [set |-> TRUE, input |-> input',
                    handlers |-> s_handlers, clock |-> clock,
                    calls |-> calls', rets |-> rets']

NextSeries == SetHandlers \/ HandleSeries \/ Returned \/ Tick

SpecSeries == Init /\ [][NextSeries]_vars

(***************************************************************************)
(* The encoder's output fed back to the entry point, for every input of    *)
(* the encoder and every buffer size.                                      *)
(***************************************************************************)
EncodeThenDecode ==
  /\ \E e \in EncoderInputs :
       protocol_handle_command_json_bytes(Bytes(Encoded(e)),
                                          Len(Encoded(e)), "valid")
  /\ UNCHANGED alone

NextRoundTrip == SetHandlers \/ EncodeThenDecode \/ Returned \/ Tick

SpecRoundTrip == Init /\ [][NextRoundTrip]_vars

(***************************************************************************)
(* The MQTT transport.  A byte of a payload is <<m, p>>: byte p of message *)
(* m.  A data event carries a fragment: data_len bytes of the message,     *)
(* their offset in it and the length of the whole message.  The outcome of *)
(* handling one event is the new reassembly state, the calls of            *)
(* on_command_json made, and the buffers allocated and freed.              *)
(***************************************************************************)
kMaxJsonLen == 8192

MqttCallbacks == {"on_command_json", "on_connected", "on_disconnected"}

Rx(buffer, len, expected, out, mallocs, frees) ==
  [buffer |-> buffer, len |-> len, expected |-> expected, calls |-> out,
   mallocs |-> mallocs, frees |-> frees]

Command(data, len) == [data |-> data, len |-> len]

(* Variant: a fragment that is not the next one is skipped and the message *)
(* being reassembled is kept.                                              *)
mqtt_handle_data_skipping(ev, memory) ==
  LET keep == Rx(s_rx_buffer, s_rx_buffer_len, s_rx_expected_len, <<>>, 0, 0)
      restart == ev.current_data_offset = 0
      stale == restart /\ (s_rx_expected_len # 0 \/ s_rx_buffer.ptr # "NULL")
      freed == IF stale /\ s_rx_buffer.ptr # "NULL" THEN 1 ELSE 0
      total == ev.total_data_len
      reset == IF stale THEN Rx(NoBuffer, 0, 0, <<>>, 0, freed) ELSE keep
  IN IF "on_command_json" \notin mqtt_handlers THEN keep
     ELSE IF ev.total_data_len <= 0 \/ ev.data_len <= 0 THEN keep
     ELSE IF restart /\ (total = 0 \/ total > kMaxJsonLen) THEN reset
     ELSE IF restart /\ memory = "NULL"
       THEN [reset EXCEPT !.buffer = NoBuffer, !.frees = freed]
     ELSE LET buffer == IF restart THEN [ptr |-> "valid", bytes |-> <<>>]
                        ELSE s_rx_buffer
              len == IF restart THEN 0 ELSE s_rx_buffer_len
              expected == IF restart THEN total ELSE s_rx_expected_len
              mallocs == IF restart THEN 1 ELSE 0
          IN IF buffer.ptr = "NULL" \/ expected = 0 THEN keep
             ELSE IF ev.current_data_offset # len THEN keep
             ELSE IF len + ev.data_len > expected
               THEN Rx(NoBuffer, 0, 0, <<>>, mallocs, freed + 1)
             ELSE LET filled == buffer.bytes \o ev.data
                      received == len + ev.data_len
                  IN IF received = expected
                       THEN Rx(NoBuffer, 0, 0,
                               <<Command(filled, received)>>, mallocs,
                               freed + 1)
                       ELSE Rx([ptr |-> "valid", bytes |-> filled],
                               received, expected, <<>>, mallocs, freed)

(* Variant: an empty fragment is taken like any other, and the state is    *)
(* kept after the message was handed over.                                 *)
mqtt_handle_data_lax(ev, memory) ==
  LET keep == Rx(s_rx_buffer, s_rx_buffer_len, s_rx_expected_len, <<>>, 0, 0)
      restart == ev.current_data_offset = 0
      stale == restart /\ (s_rx_expected_len # 0 \/ s_rx_buffer.ptr # "NULL")
      freed == IF stale /\ s_rx_buffer.ptr # "NULL" THEN 1 ELSE 0
      total == ev.total_data_len
      reset == IF stale THEN Rx(NoBuffer, 0, 0, <<>>, 0, freed) ELSE keep
  IN IF "on_command_json" \notin mqtt_handlers THEN keep
     ELSE IF ev.total_data_len <= 0 THEN keep
     ELSE IF restart /\ (total = 0 \/ total > kMaxJsonLen) THEN reset
     ELSE IF restart /\ memory = "NULL"
       THEN [reset EXCEPT !.buffer = NoBuffer, !.frees = freed]
     ELSE LET buffer == IF restart THEN [ptr |-> "valid", bytes |-> <<>>]
                        ELSE s_rx_buffer
              len == IF restart THEN 0 ELSE s_rx_buffer_len
              expected == IF restart THEN total ELSE s_rx_expected_len
              mallocs == IF restart THEN 1 ELSE 0
          IN IF buffer.ptr = "NULL" \/ expected = 0 THEN keep
             ELSE IF ev.current_data_offset # len
               THEN Rx(NoBuffer, 0, 0, <<>>, mallocs, freed + 1)
             ELSE IF len + ev.data_len > expected
               THEN Rx(NoBuffer, 0, 0, <<>>, mallocs, freed + 1)
             ELSE LET filled == buffer.bytes \o ev.data
                      received == len + ev.data_len
                  IN IF received = expected
                       THEN Rx([ptr |-> "valid", bytes |-> filled],
                               received, expected,
                               <<Command(filled, received)>>, mallocs,
                               freed)
                       ELSE Rx([ptr |-> "valid", bytes |-> filled],
                               received, expected, <<>>, mallocs, freed)

(* Variant: a first fragment that arrives while a message is being         *)
(* reassembled does not discard it; its bytes are added to those received. *)
mqtt_handle_data_keeping(ev, memory) ==
  LET keep == Rx(s_rx_buffer, s_rx_buffer_len, s_rx_expected_len, <<>>, 0, 0)
      restart == ev.current_data_offset = 0
      stale == restart /\ s_rx_buffer.ptr # "NULL"
      total == ev.total_data_len
  IN IF "on_command_json" \notin mqtt_handlers THEN keep
     ELSE IF ev.total_data_len <= 0 \/ ev.data_len <= 0 THEN keep
     ELSE IF restart /\ ~stale /\ (total = 0 \/ total > kMaxJsonLen) THEN keep
     ELSE IF restart /\ ~stale /\ memory = "NULL" THEN keep
     ELSE LET fresh == restart /\ ~stale
              buffer == IF fresh THEN [ptr |-> "valid", bytes |-> <<>>]
                        ELSE s_rx_buffer
              len == IF fresh THEN 0 ELSE s_rx_buffer_len
              expected == IF fresh THEN total ELSE s_rx_expected_len
              mallocs == IF fresh THEN 1 ELSE 0
          IN IF buffer.ptr = "NULL" \/ expected = 0 THEN keep
             ELSE IF ~restart /\ ev.current_data_offset # len
               THEN Rx(NoBuffer, 0, 0, <<>>, mallocs, 1)
             ELSE IF len + ev.data_len > expected
               THEN Rx(NoBuffer, 0, 0, <<>>, mallocs, 1)
             ELSE LET filled == buffer.bytes \o ev.data
                      received == len + ev.data_len
                  IN IF received = expected
                       THEN Rx(NoBuffer, 0, 0,
                               <<Command(filled, received)>>, mallocs, 1)
                       ELSE Rx([ptr |-> "valid", bytes |-> filled],
                               received, expected, <<>>, mallocs, 0)

(* Variant: the announced total is not compared with the limit.            *)
mqtt_handle_data_unlimited(ev, memory) ==
  LET keep == Rx(s_rx_buffer, s_rx_buffer_len, s_rx_expected_len, <<>>, 0, 0)
      restart == ev.current_data_offset = 0
      stale == restart /\ (s_rx_expected_len # 0 \/ s_rx_buffer.ptr # "NULL")
      freed == IF stale /\ s_rx_buffer.ptr # "NULL" THEN 1 ELSE 0
      total == ev.total_data_len
      reset == IF stale THEN Rx(NoBuffer, 0, 0, <<>>, 0, freed) ELSE keep
  IN IF "on_command_json" \notin mqtt_handlers THEN keep
     ELSE IF ev.total_data_len <= 0 \/ ev.data_len <= 0 THEN keep
     ELSE IF restart /\ memory = "NULL"
       THEN [reset EXCEPT !.buffer = NoBuffer, !.frees = freed]
     ELSE LET buffer == IF restart THEN [ptr |-> "valid", bytes |-> <<>>]
                        ELSE s_rx_buffer
              len == IF restart THEN 0 ELSE s_rx_buffer_len
              expected == IF restart THEN total ELSE s_rx_expected_len
              mallocs == IF restart THEN 1 ELSE 0
          IN IF buffer.ptr = "NULL" \/ expected = 0 THEN keep
             ELSE IF ev.current_data_offset # len
               THEN Rx(NoBuffer, 0, 0, <<>>, mallocs, freed + 1)
             ELSE IF len + ev.data_len > expected
               THEN Rx(NoBuffer, 0, 0, <<>>, mallocs, freed + 1)
             ELSE LET filled == buffer.bytes \o ev.data
                      received == len + ev.data_len
                  IN IF received = expected
                       THEN Rx(NoBuffer, 0, 0,
                               <<Command(filled, received)>>, mallocs,
                               freed + 1)
                       ELSE Rx([ptr |-> "valid", bytes |-> filled],
                               received, expected, <<>>, mallocs, freed)

mqtt_handle_data(ev, memory) ==
  LET keep == Rx(s_rx_buffer, s_rx_buffer_len, s_rx_expected_len, <<>>, 0, 0)
      restart == ev.current_data_offset = 0
      stale == restart /\ (s_rx_expected_len # 0 \/ s_rx_buffer.ptr # "NULL")
      freed == IF stale /\ s_rx_buffer.ptr # "NULL" THEN 1 ELSE 0
      total == ev.total_data_len
      reset == IF stale THEN Rx(NoBuffer, 0, 0, <<>>, 0, freed) ELSE keep
  IN IF "on_command_json" \notin mqtt_handlers THEN keep
     ELSE IF ev.total_data_len <= 0 \/ ev.data_len <= 0 THEN keep
     ELSE IF restart /\ (total = 0 \/ total > kMaxJsonLen) THEN reset
     ELSE IF restart /\ memory = "NULL"
       THEN [reset EXCEPT !.buffer = NoBuffer, !.frees = freed]
     ELSE LET buffer == IF restart THEN [ptr |-> "valid", bytes |-> <<>>]
                        ELSE s_rx_buffer
              len == IF restart THEN 0 ELSE s_rx_buffer_len
              expected == IF restart THEN total ELSE s_rx_expected_len
              mallocs == IF restart THEN 1 ELSE 0
          IN IF buffer.ptr = "NULL" \/ expected = 0 THEN keep
             ELSE IF ev.current_data_offset # len
               THEN Rx(NoBuffer, 0, 0, <<>>, mallocs, freed + 1)
             ELSE IF len + ev.data_len > expected
               THEN Rx(NoBuffer, 0, 0, <<>>, mallocs, freed + 1)
             ELSE LET filled == buffer.bytes \o ev.data
                      received == len + ev.data_len
                  IN IF received = expected
                       THEN Rx(NoBuffer, 0, 0,
                               <<Command(filled, received)>>, mallocs,
                               freed + 1)
                       ELSE Rx([ptr |-> "valid", bytes |-> filled],
                               received, expected, <<>>, mallocs, freed)

(***************************************************************************)
(* What has arrived, in order, of the message on the wire: told from the   *)
(* events alone.  A fragment at offset 0 starts a message; a fragment at   *)
(* the offset reached so far, of the same message, continues it; any other *)
(* fragment ends it.                                                       *)
(***************************************************************************)
Starts(ev) ==
  /\ ev.current_data_offset = 0
  /\ ev.data_len > 0
  /\ ev.total_data_len >= ev.data_len
  /\ ev.total_data_len <= kMaxJsonLen

Continues(ev) ==
  /\ ev.current_data_offset > 0
  /\ ev.data_len > 0
  /\ arrived.total = ev.total_data_len
  /\ Len(arrived.bytes) = ev.current_data_offset
  /\ Len(arrived.bytes) + ev.data_len <= arrived.total

InOrder(ev) ==
  IF Starts(ev) THEN [total |-> ev.total_data_len, bytes |-> ev.data]
  ELSE IF Continues(ev)
    THEN [total |-> arrived.total, bytes |-> arrived.bytes \o ev.data]
  ELSE NothingArrived

mqtt_set_handlers(handlers) ==
  /\ mqtt_handlers' = IF handlers.ptr # "NULL" THEN handlers.table ELSE {}
  /\ UNCHANGED <<s_rx_buffer, s_rx_buffer_len, s_rx_expected_len,
                 rx_allocated, rx_traffic, event, delivered, arrived,
                 mqtt_out>>
  /\ UNCHANGED <<protocol_vars, wifi_vars>>

Effect(op, topic, payload, qos) ==
  [op |-> op, topic |-> topic, payload |-> payload, qos |-> qos]

Callback(name) ==
  IF name \in mqtt_handlers THEN <<Effect(name, "", "", 0)>> ELSE <<>>

mqtt_publish_debug(payload) ==
  <<Effect("esp_mqtt_client_publish", "robot/debug", payload, 0)>>

(* Variant: the subscription is issued before the callback runs, and at    *)
(* QoS 0.                                                                  *)
mqtt_handle_connected_subscribing_first ==
  mqtt_publish_debug("connected")
    \o <<Effect("esp_mqtt_client_subscribe", "CONFIG_COMMAND_TOPIC", "",
                0)>>
    \o Callback("on_connected")

mqtt_handle_connected ==
  mqtt_publish_debug("connected")
    \o Callback("on_connected")
    \o <<Effect("esp_mqtt_client_subscribe", "CONFIG_COMMAND_TOPIC", "",
                1)>>

mqtt_handle_disconnected == Callback("on_disconnected")

mqtt_event_handler(ev, memory) ==
  /\ LET rx == IF ev.event_id = "MQTT_EVENT_DATA"
                 THEN mqtt_handle_data(ev, memory)
               ELSE Rx(s_rx_buffer, s_rx_buffer_len, s_rx_expected_len,
                       <<>>, 0, 0)
     IN /\ s_rx_buffer' = rx.buffer
        /\ s_rx_buffer_len' = rx.len
        /\ s_rx_expected_len' = rx.expected
        /\ delivered' = rx.calls
        /\ rx_allocated' = rx_allocated + rx.mallocs - rx.frees
        /\ rx_traffic' = [mallocs |-> rx.mallocs, frees |-> rx.frees]
  /\ mqtt_out' = IF ev.event_id = "MQTT_EVENT_CONNECTED"
                   THEN mqtt_handle_connected
                 ELSE IF ev.event_id = "MQTT_EVENT_DISCONNECTED"
                   THEN mqtt_handle_disconnected
                 ELSE <<>>
  /\ event' = ev
  /\ arrived' = InOrder(ev)
  /\ UNCHANGED mqtt_handlers
  /\ UNCHANGED <<protocol_vars, wifi_vars>>

(* The event handler of the second copy of mqtt.c in the sources: every    *)
(* data event is forwarded as it comes.                                    *)
mqtt_event_handler_forwarding(ev) ==
  /\ ev.event_id = "MQTT_EVENT_DATA"
  /\ delivered' = IF "on_command_json" \in mqtt_handlers
                    THEN <<Command(ev.data, ev.data_len)>> ELSE <<>>
  /\ event' = ev
  /\ arrived' = InOrder(ev)
  /\ rx_traffic' = NoTraffic
  /\ UNCHANGED <<mqtt_handlers, s_rx_buffer, s_rx_buffer_len,
                 s_rx_expected_len, rx_allocated, mqtt_out>>
  /\ UNCHANGED <<protocol_vars, wifi_vars>>

(***************************************************************************)
(* The events fed: fragments of two messages, of every offset and length   *)
(* up to a few bytes, announcing a short message, the longest one allowed, *)
(* one byte more than that, or none.                                       *)
(***************************************************************************)
Fragment(m, offset, len) == [i \in 1..len |-> <<m, offset + i>>]

DataEvents ==
  {[event_id |-> "MQTT_EVENT_DATA", data |-> Fragment(m, offset, len),
    data_len |-> len, total_data_len |-> total,
    current_data_offset |-> offset] :
     m \in {1, 2}, offset \in 0..2, len \in 0..2,
     total \in {0, 2, 3, kMaxJsonLen, kMaxJsonLen + 1}}

MqttHandlerTables == {MqttCallbacks, {"on_command_json"}, {"on_connected"}}

SetMqttHandlers ==
  \E h \in {[ptr |-> "NULL", table |-> {}]}
             \cup {[ptr |-> "valid", table |-> t] : t \in MqttHandlerTables} :
    mqtt_set_handlers(h)

HandleData ==
  \E ev \in DataEvents, memory \in {"valid", "NULL"} :
    mqtt_event_handler(ev, memory)

ConnectionEvents ==
  {[event_id |-> id, data |-> <<>>, data_len |-> 0, total_data_len |-> 0,
    current_data_offset |-> 0] :
     id \in {"MQTT_EVENT_CONNECTED", "MQTT_EVENT_DISCONNECTED"}}

HandleConnection ==
  \E ev \in ConnectionEvents : mqtt_event_handler(ev, "valid")

NextMqtt == SetMqttHandlers \/ HandleData \/ HandleConnection

SpecMqtt == Init /\ [][NextMqtt]_vars

ForwardData == \E ev \in DataEvents : mqtt_event_handler_forwarding(ev)

NextMqttForwarding == SetMqttHandlers \/ ForwardData

SpecMqttForwarding == Init /\ [][NextMqttForwarding]_vars

(***************************************************************************)
(* The Wi-Fi station (robot-wifi/wifi.c).  wifi_init_sta runs in the       *)
(* calling task, one statement group per step; on_wifi_disconnect and      *)
(* on_got_ip run in the event loop task, one at a time, and may run        *)
(* between any two steps of wifi_init_sta once the station was started.    *)
(* A handler that found the semaphore handle set gives the semaphore in a  *)
(* step of its own.  A binary semaphore holds at most one token; a take    *)
(* with portMAX_DELAY waits until it holds one.                            *)
(***************************************************************************)
WifiCallbacks ==
  {"on_wifi_connecting", "on_wifi_connected", "on_wifi_disconnected"}

Notify(callback) == IF callback \in wifi_handlers THEN <<callback>> ELSE <<>>

Started == wifi_pc # "start" /\ wifi_ret # "ESP_ERR_WIFI_CONN"

(* A give on a binary semaphore that holds a token changes nothing.  The    *)
(* giver field is history: the handler whose give put the token there.     *)
xSemaphoreGive(semaphore, giver) ==
  IF semaphore.state = "created" /\ semaphore.tokens = 0
    THEN [semaphore EXCEPT !.tokens = 1, !.giver = giver]
    ELSE semaphore

(* A give on a deleted semaphore writes to freed memory: it may go         *)
(* unnoticed or abort the program.                                         *)
GiveOutcomes(semaphore) ==
  IF semaphore.state = "deleted" THEN {"unnoticed", "abort"} ELSE {"given"}

wifi_set_handlers(handlers) ==
  /\ wifi_handlers' = IF handlers.ptr # "NULL" THEN handlers.table ELSE {}
  /\ UNCHANGED <<wifi_pc, wifi_ret, s_ip_sem, s_retry_num, ip_sem, ev_pc,
                 wifi_out, woken, got_ip_seen,
                 wait_ended_by>>
  /\ UNCHANGED <<protocol_vars, mqtt_vars>>

(* Lines 56-100: the handlers are registered, the station is started and   *)
(* the first connection attempt is issued.                                 *)
wifi_init_sta_connect(err) ==
  /\ wifi_pc = "start"
  /\ wifi_out' = Notify("on_wifi_connecting")
                   \o <<"esp_wifi_start", "esp_wifi_connect">>
  /\ IF err # "ESP_OK"
       THEN wifi_pc' = "done" /\ wifi_ret' = err
       ELSE wifi_pc' = "connect_issued" /\ wifi_ret' = wifi_ret
  /\ UNCHANGED <<wifi_handlers, s_ip_sem, s_retry_num, ip_sem, ev_pc, woken, got_ip_seen,
                 wait_ended_by>>
  /\ UNCHANGED <<protocol_vars, mqtt_vars>>

(* Lines 102-106. *)
wifi_init_sta_create(memory) ==
  /\ wifi_pc = "connect_issued"
  /\ s_ip_sem' = memory
  /\ IF memory = "NULL"
       THEN /\ wifi_pc' = "done"
            /\ wifi_ret' = "ESP_ERR_NO_MEM"
            /\ ip_sem' = ip_sem
       ELSE /\ wifi_pc' = "waiting"
            /\ wifi_ret' = wifi_ret
            /\ ip_sem' = [state |-> "created", tokens |-> 0,
                           giver |-> "none"]
  /\ UNCHANGED <<wifi_handlers, s_retry_num, ev_pc, wifi_out, woken, got_ip_seen,
                 wait_ended_by>>
  /\ UNCHANGED <<protocol_vars, mqtt_vars>>

(* Line 109. *)
wifi_init_sta_take ==
  /\ wifi_pc = "waiting"
  /\ ip_sem.tokens = 1
  /\ ip_sem' = [ip_sem EXCEPT !.tokens = 0]
  /\ wait_ended_by' = ip_sem.giver
  /\ wifi_pc' = "taken"
  /\ UNCHANGED <<wifi_handlers, wifi_ret, s_ip_sem, s_retry_num, ev_pc,
                 wifi_out, woken, got_ip_seen>>
  /\ UNCHANGED <<protocol_vars, mqtt_vars>>

(* Line 110. *)
wifi_init_sta_delete ==
  /\ wifi_pc = "taken"
  /\ ip_sem' = [ip_sem EXCEPT !.state = "deleted", !.tokens = 0]
  /\ wifi_pc' = "deleted"
  /\ UNCHANGED <<wifi_handlers, wifi_ret, s_ip_sem, s_retry_num, ev_pc,
                 wifi_out, woken, got_ip_seen,
                 wait_ended_by>>
  /\ UNCHANGED <<protocol_vars, mqtt_vars>>

(* Line 111. *)
wifi_init_sta_clear ==
  /\ wifi_pc = "deleted"
  /\ s_ip_sem' = "NULL"
  /\ wifi_pc' = "cleared"
  /\ UNCHANGED <<wifi_handlers, wifi_ret, s_retry_num, ip_sem, ev_pc,
                 wifi_out, woken, got_ip_seen,
                 wait_ended_by>>
  /\ UNCHANGED <<protocol_vars, mqtt_vars>>

(* Lines 113-119. *)
wifi_init_sta_return ==
  /\ wifi_pc = "cleared"
  /\ wifi_ret' = IF s_retry_num > WIFI_CONN_MAX_RETRY THEN "ESP_FAIL"
                 ELSE "ESP_OK"
  /\ wifi_pc' = "done"
  /\ UNCHANGED <<wifi_handlers, s_ip_sem, s_retry_num, ip_sem, ev_pc,
                 wifi_out, woken, got_ip_seen,
                 wait_ended_by>>
  /\ UNCHANGED <<protocol_vars, mqtt_vars>>

(* on_wifi_disconnect giving up at the limit instead of beyond it. *)
on_wifi_disconnect_giving_up_early ==
  /\ Started
  /\ ev_pc = "idle"
  /\ s_retry_num < MaxRetryNum
  /\ s_retry_num' = s_retry_num + 1
  /\ IF s_retry_num + 1 >= WIFI_CONN_MAX_RETRY
       THEN /\ wifi_out' = Notify("on_wifi_disconnected")
            /\ ev_pc' = IF s_ip_sem # "NULL" THEN "give" ELSE "idle"
            /\ woken' = TRUE
       ELSE /\ wifi_out' = Notify("on_wifi_connecting")
                             \o <<"esp_wifi_connect">>
            /\ ev_pc' = "idle"
            /\ woken' = woken
  /\ UNCHANGED <<wifi_handlers, wifi_pc, wifi_ret, s_ip_sem, ip_sem,
                 got_ip_seen, wait_ended_by>>
  /\ UNCHANGED <<protocol_vars, mqtt_vars>>

(* Lines 19-41, up to the give. *)
on_wifi_disconnect ==
  /\ Started
  /\ ev_pc = "idle"
  /\ s_retry_num < MaxRetryNum
  /\ s_retry_num' = s_retry_num + 1
  /\ IF s_retry_num + 1 > WIFI_CONN_MAX_RETRY
       THEN /\ wifi_out' = Notify("on_wifi_disconnected")
            /\ ev_pc' = IF s_ip_sem # "NULL" THEN "give" ELSE "idle"
            /\ woken' = TRUE
       ELSE /\ wifi_out' = Notify("on_wifi_connecting")
                             \o <<"esp_wifi_connect">>
            /\ ev_pc' = "idle"
            /\ woken' = woken
  /\ UNCHANGED <<wifi_handlers, wifi_pc, wifi_ret, s_ip_sem, ip_sem,
                 got_ip_seen, wait_ended_by>>
  /\ UNCHANGED <<protocol_vars, mqtt_vars>>

(* Lines 28-30: the give of a handler that gave up. *)
on_wifi_disconnect_give ==
  /\ ev_pc = "give"
  /\ wifi_out' = wifi_out \o <<"xSemaphoreGive">>
  /\ \E outcome \in GiveOutcomes(ip_sem) :
       IF outcome = "abort"
         THEN ev_pc' = "aborted" /\ wifi_pc' = "aborted" /\ ip_sem' = ip_sem
         ELSE /\ ip_sem' = xSemaphoreGive(ip_sem, "give_up")
              /\ ev_pc' = "idle"
              /\ wifi_pc' = wifi_pc
  /\ UNCHANGED <<wifi_handlers, wifi_ret, s_ip_sem, s_retry_num, woken,
                 got_ip_seen, wait_ended_by>>
  /\ UNCHANGED <<protocol_vars, mqtt_vars>>

(* Lines 43-54, up to the give. *)
on_got_ip ==
  /\ Started
  /\ ev_pc = "idle"
  /\ s_retry_num' = 0
  /\ woken' = TRUE
  /\ IF s_ip_sem # "NULL"
       THEN ev_pc' = "give_ip" /\ wifi_out' = <<>>
       ELSE ev_pc' = "idle" /\ wifi_out' = Notify("on_wifi_connected")
  /\ got_ip_seen' = TRUE
  /\ UNCHANGED <<wifi_handlers, wifi_pc, wifi_ret, s_ip_sem, ip_sem,
                 wait_ended_by>>
  /\ UNCHANGED <<protocol_vars, mqtt_vars>>

(* Lines 48-53: the give and the notification after it. *)
on_got_ip_give ==
  /\ ev_pc = "give_ip"
  /\ \E outcome \in GiveOutcomes(ip_sem) :
       IF outcome = "abort"
         THEN /\ wifi_out' = <<"xSemaphoreGive">>
              /\ ev_pc' = "aborted"
              /\ wifi_pc' = "aborted"
              /\ ip_sem' = ip_sem
         ELSE /\ wifi_out' = <<"xSemaphoreGive">>
                               \o Notify("on_wifi_connected")
              /\ ip_sem' = xSemaphoreGive(ip_sem, "got_ip")
              /\ ev_pc' = "idle"
              /\ wifi_pc' = wifi_pc
  /\ UNCHANGED <<wifi_handlers, wifi_ret, s_ip_sem, s_retry_num, woken,
                 got_ip_seen, wait_ended_by>>
  /\ UNCHANGED <<protocol_vars, mqtt_vars>>

(***************************************************************************)
(* The station as a whole.  The calling task and a handler that has begun  *)
(* keep running (weak fairness on their steps); whether and when the       *)
(* network produces an event is left open.                                 *)
(***************************************************************************)
SetWifiHandlers ==
  /\ wifi_pc # "aborted"
  /\ \E h \in {[ptr |-> "NULL", table |-> {}],
               [ptr |-> "valid", table |-> WifiCallbacks]} :
       wifi_set_handlers(h)

WifiInitStaConnect ==
  \E err \in {"ESP_OK", "ESP_ERR_WIFI_CONN"} : wifi_init_sta_connect(err)

WifiInitStaCreate ==
  \E memory \in {"valid", "NULL"} : wifi_init_sta_create(memory)

wifi_init_sta ==
  \/ WifiInitStaConnect
  \/ WifiInitStaCreate
  \/ wifi_init_sta_take
  \/ wifi_init_sta_delete
  \/ wifi_init_sta_clear
  \/ wifi_init_sta_return

EventLoopGive == on_wifi_disconnect_give \/ on_got_ip_give

NextWifi ==
  \/ SetWifiHandlers
  \/ WifiInitStaConnect
  \/ WifiInitStaCreate
  \/ wifi_init_sta_take
  \/ wifi_init_sta_delete
  \/ wifi_init_sta_clear
  \/ wifi_init_sta_return
  \/ on_wifi_disconnect
  \/ on_wifi_disconnect_give
  \/ on_got_ip
  \/ on_got_ip_give

SpecWifi ==
  Init /\ [][NextWifi]_vars /\ WF_vars(wifi_init_sta) /\ WF_vars(EventLoopGive)

(***************************************************************************)
(* Vocabulary of the properties: the parts of the document just            *)
(* dispatched, and what a list of steps yields when each step is           *)
(* delivered alone as the command of a "command" message.                  *)
(***************************************************************************)
Field(object, name) == cJSON_GetObjectItemCaseSensitive(object, name)

SequenceReturned ==
  /\ pc = "returned"
  /\ cJSON_IsObject(root)
  /\ Field(root, "type") = Str("sequence")
  /\ cJSON_IsArray(Field(root, "steps"))

CommandReturned ==
  /\ pc = "returned"
  /\ cJSON_IsObject(root)
  /\ Field(root, "type") = Str("command")
  /\ cJSON_IsObject(Field(root, "command"))

RootSteps == Field(root, "steps").items

RootRepeat == Field(root, "repeat")

RootCommand == Field(root, "command")

RootKind == Field(RootCommand, "kind")

Alone(step) ==
  IF cJSON_IsObject(step)
    THEN dispatch(Obj([type |-> Str("command"), command |-> step]))
    ELSE Outcome(<<>>, <<>>)

RECURSIVE OnePass(_, _)
OnePass(steps, i) ==
  IF i > Len(steps) THEN <<>>
  ELSE Alone(steps[i]).calls \o OnePass(steps, i + 1)

RECURSIVE RepeatTrace(_, _)
RepeatTrace(cs, r) == IF r <= 0 THEN <<>> ELSE cs \o RepeatTrace(cs, r - 1)

IsBareStep(step) ==
  cJSON_IsObject(step) /\ Field(step, "type") = Absent

IsTypedStep(step, type) ==
  cJSON_IsObject(step) /\ Field(step, "type") = Str(type)

ObjectSteps(steps) == {i \in 1..Len(steps) : cJSON_IsObject(steps[i])}

CallsTo(fn) == {i \in 1..Len(calls) : calls[i].fn = fn}

(***************************************************************************)
(* C1: a sequence message whose steps are bare command objects and whose   *)
(* repeat is a number R >= 1 makes the calls of step1..stepN, in that      *)
(* order, R times in a row.                                                *)
(***************************************************************************)
C1_RepeatedInOrder ==
  (/\ SequenceReturned
   /\ \A i \in 1..Len(RootSteps) : IsBareStep(RootSteps[i])
   /\ cJSON_IsNumber(RootRepeat)
   /\ Trunc(RootRepeat.n) >= 1)
    => calls = RepeatTrace(OnePass(RootSteps, 1), Trunc(RootRepeat.n))

(***************************************************************************)
(* C2: a step of a sequence that carries its own string type is routed as  *)
(* a full message: a {type: "command", command: {...}} step makes the      *)
(* calls of the wrapped command, a {type: "config", drive: {...}} step     *)
(* calls set_drive_config.                                                 *)
(***************************************************************************)
C2_TypedStepsRouted ==
  SequenceReturned =>
    \A i \in 1..Len(RootSteps) :
      LET step == RootSteps[i]
      IN /\ (IsTypedStep(step, "command")
               /\ cJSON_IsObject(Field(step, "command")))
              => \A k \in 1..Len(Alone(Field(step, "command")).calls) :
                   \E j \in 1..Len(calls) :
                     calls[j] = Alone(Field(step, "command")).calls[k]
         /\ (IsTypedStep(step, "config")
               /\ cJSON_IsObject(Field(step, "drive"))
               /\ "set_drive_config" \in s_handlers)
              => CallsTo("set_drive_config") # {}

(***************************************************************************)
(* C3: a nested sequence step runs all of its own steps, times its own     *)
(* repeat, between the calls of the parent's preceding steps and those of  *)
(* the parent's following steps (parent without repeat).                   *)
(***************************************************************************)
NestedCalls(step) ==
  LET r == Field(step, "repeat")
  IN RepeatTrace(OnePass(Field(step, "steps").items, 1),
                 IF cJSON_IsNumber(r) /\ Trunc(r.n) >= 1
                   THEN Trunc(r.n) ELSE 1)

C3_NestedCompletesInPlace ==
  (SequenceReturned /\ RootRepeat = Absent) =>
    \A i \in 1..Len(RootSteps) :
      (/\ IsTypedStep(RootSteps[i], "sequence")
       /\ cJSON_IsArray(Field(RootSteps[i], "steps"))
       /\ \A j \in 1..Len(RootSteps) : j # i => IsBareStep(RootSteps[j]))
        => calls = OnePass(SubSeq(RootSteps, 1, i - 1), 1)
                     \o NestedCalls(RootSteps[i])
                     \o OnePass(SubSeq(RootSteps, i + 1, Len(RootSteps)), 1)

(***************************************************************************)
(* C4: a sequence whose repeat is omitted, not a number, 0 or negative     *)
(* runs its step list exactly once: every object step is evaluated once    *)
(* and the calls are those of one pass over the steps.                     *)
(***************************************************************************)
C4_DegenerateRepeatRunsOnce ==
  (SequenceReturned
   /\ (~cJSON_IsNumber(RootRepeat) \/ Trunc(RootRepeat.n) < 1))
    => /\ calls = OnePass(RootSteps, 1)
       /\ Len(rets) = Cardinality(ObjectSteps(RootSteps))

C4_Witness ==
  /\ SequenceReturned
  /\ RootRepeat = Num(-5)
  /\ RootSteps = <<BareStop, BareClearQueue>>
  /\ calls = <<Call("stop", "", <<>>), Call("clear_queue", "", <<>>)>>

(***************************************************************************)
(* C5: in every sequence a failing step (not an object, or an object the   *)
(* evaluator rejects) makes no call, and the calls of the sequence are     *)
(* those of the remaining steps, each as it makes them alone, in the       *)
(* original order.                                                         *)
(***************************************************************************)
Failing(step) == ~cJSON_IsObject(step) \/ Alone(step).rets = <<FALSE>>

NotFailing(step) == ~Failing(step)

C5_FailingStepIsLocal ==
  SequenceReturned =>
    /\ \A i \in 1..Len(RootSteps) :
         Failing(RootSteps[i]) => Alone(RootSteps[i]).calls = <<>>
    /\ calls = OnePass(SelectSeq(RootSteps, NotFailing), 1)
    /\ Len(rets) = Cardinality(ObjectSteps(RootSteps))

C5_Witness ==
  /\ SequenceReturned
  /\ Len(RootSteps) = 2
  /\ Field(RootSteps[1], "kind") = Str("jump")
  /\ RootSteps[2] = BareStop
  /\ rets = <<FALSE, TRUE>>
  /\ calls = <<Call("stop", "", <<>>)>>

(***************************************************************************)
(* Validity of a command object as the documents' field tables state it.   *)
(***************************************************************************)
Recognized == {"forward", "backward"}

Positive(item) == cJSON_IsNumber(item) /\ Trunc(item.n) > 0

RequiredMissing(c) ==
  LET k == Field(c, "kind")
  IN /\ cJSON_IsString(k)
     /\ \/ /\ k.s = "drive"
           /\ \/ ~cJSON_IsString(Field(c, "direction"))
              \/ ~cJSON_IsNumber(Field(c, "speed"))
        \/ /\ k.s = "turn"
           /\ \/ ~cJSON_IsNumber(Field(c, "radius"))
              \/ ~cJSON_IsNumber(Field(c, "angle"))
        \/ /\ k.s = "led_hsv"
           /\ ~cJSON_IsNumber(Field(c, "h"))
        \/ /\ k.s = "immediate"
           /\ \/ ~cJSON_IsNumber(Field(c, "left"))
              \/ ~cJSON_IsNumber(Field(c, "right"))

ValidCommand(c) ==
  LET k == Field(c, "kind")
  IN /\ cJSON_IsString(k)
     /\ k.s \in {"drive", "turn", "led_hsv", "immediate", "stop",
                 "clear_queue"}
     /\ ~RequiredMissing(c)
     /\ k.s = "turn" =>
          Positive(Field(c, "speed")) \/ Positive(Field(c, "duration"))

CapabilityOf(k) == IF k = "led_hsv" THEN "set_led_hsv" ELSE k

(***************************************************************************)
(* C6: with every capability bound, a valid command message of a kind that *)
(* has a capability (drive, turn, led_hsv, immediate, stop, clear_queue)   *)
(* makes exactly one call, to the capability of its kind.                  *)
(***************************************************************************)
C6_OneMatchingCall ==
  (CommandReturned /\ s_handlers = AllBound /\ ValidCommand(RootCommand))
    => /\ rets = <<TRUE>>
       /\ Len(calls) = 1
       /\ calls[1].fn = CapabilityOf(RootKind.s)

C6_Witness ==
  /\ CommandReturned
  /\ s_handlers = AllBound
  /\ RootKind = Str("clear_queue")
  /\ calls = <<Call("clear_queue", "", <<>>)>>

(***************************************************************************)
(* C7: an optional field that is absent or not a number reaches the        *)
(* capability as its default (drive duration 0, distance 0; turn speed 0,  *)
(* duration 0; led_hsv s 255, v 32; immediate timeout_ms 200); a field     *)
(* holding a whole number that the parameter's type can hold reaches it    *)
(* unchanged.                                                              *)
(***************************************************************************)
DefaultOrPassed(item, default, lo, hi, arg) ==
  IF ~cJSON_IsNumber(item) THEN arg = default
  ELSE (item.n % Scale = 0 /\ Trunc(item.n) >= lo /\ Trunc(item.n) <= hi)
         => arg = Trunc(item.n)

C7_DefaultsFilled ==
  (CommandReturned /\ Len(calls) = 1) =>
    LET c == RootCommand
        a == calls[1].args
    IN /\ calls[1].fn = "drive" =>
            /\ DefaultOrPassed(Field(c, "duration"), 0, 0, 2147483647, a[2])
            /\ DefaultOrPassed(Field(c, "distance"), 0, 0, 2147483647, a[3])
       /\ calls[1].fn = "turn" =>
            /\ DefaultOrPassed(Field(c, "speed"), 0, -2147483647, 2147483647,
                               a[3])
            /\ DefaultOrPassed(Field(c, "duration"), 0, 0, 2147483647, a[4])
       /\ calls[1].fn = "set_led_hsv" =>
            /\ DefaultOrPassed(Field(c, "s"), 255, 0, 255, a[2])
            /\ DefaultOrPassed(Field(c, "v"), 32, 0, 255, a[3])
       /\ calls[1].fn = "immediate" =>
            DefaultOrPassed(Field(c, "timeout_ms"), 200, 0, 2147483647, a[3])

C7_Witness ==
  /\ CommandReturned
  /\ Field(RootCommand, "duration") = Absent
  /\ Field(RootCommand, "distance") = Num(1000)
  /\ calls = <<Call("drive", "forward", <<150, 0, 1000>>)>>

(***************************************************************************)
(* C8: a command message whose command lacks a required field, or holds it *)
(* with the wrong type, is rejected (the evaluator returns false) and      *)
(* makes no call.                                                          *)
(***************************************************************************)
C8_MissingRequiredRejected ==
  (CommandReturned /\ RequiredMissing(RootCommand))
    => rets = <<FALSE>> /\ calls = <<>>

C8_Witness ==
  /\ CommandReturned
  /\ s_handlers = AllBound
  /\ RootKind = Str("immediate")
  /\ cJSON_IsNumber(Field(RootCommand, "left"))
  /\ Field(RootCommand, "right") = Str("full")
  /\ rets = <<FALSE>>
  /\ calls = <<>>

C10_UnrecognizedDirectionRejected ==
  /\ \A i \in CallsTo("drive") : calls[i].direction \in Recognized
  /\ (/\ CommandReturned
      /\ RootKind = Str("drive")
      /\ cJSON_IsString(Field(RootCommand, "direction"))
      /\ Field(RootCommand, "direction").s \notin Recognized)
       => rets = <<FALSE>> /\ calls = <<>>

(***************************************************************************)
(* C10 as amended: a drive command whose direction is not a string (or     *)
(* whose speed is not a number) is rejected and makes no call; with a      *)
(* numeric speed every string direction, recognized or not, is accepted    *)
(* and handed unchanged to the drive capability.                           *)
(***************************************************************************)
C10_DirectionPassedUnchecked ==
  (CommandReturned /\ RootKind = Str("drive")) =>
    LET direction == Field(RootCommand, "direction")
    IN IF cJSON_IsString(direction)
            /\ cJSON_IsNumber(Field(RootCommand, "speed"))
         THEN /\ rets = <<TRUE>>
              /\ "drive" \in s_handlers =>
                   /\ Len(calls) = 1
                   /\ calls[1].fn = "drive"
                   /\ calls[1].direction = direction.s
         ELSE rets = <<FALSE>> /\ calls = <<>>

C10_Witness ==
  /\ CommandReturned
  /\ Field(RootCommand, "direction") = Str("sideways")
  /\ rets = <<TRUE>>
  /\ calls = <<Call("drive", "sideways", <<150, 0, 0>>)>>


(***************************************************************************)
(* C11: the now_ms argument of every immediate call is the clock value at  *)
(* the time of evaluation, and the calls of an immediate command are those *)
(* of the same command, at the same clock value, with its now_ms field     *)
(* removed or replaced by any other value.                                 *)
(***************************************************************************)
WithNowMs(command, item) ==
  Obj([name \in DOMAIN command.m |->
         IF name = "now_ms" THEN item ELSE command.m[name]])

NowMsValues == {Absent, Num(0), Num(123456), Num(-1), Str("later"), Null}

C11_NowIsEngineClock ==
  /\ pc = "returned" =>
       \A i \in CallsTo("immediate") : calls[i].args[4] = clock
  /\ (CommandReturned /\ RootKind = Str("immediate")) =>
       \A item \in NowMsValues :
         Alone(WithNowMs(RootCommand, item)).calls = calls

C11_Witness ==
  /\ CommandReturned
  /\ s_handlers = AllBound
  /\ clock = 1
  /\ RootKind = Str("immediate")
  /\ Field(RootCommand, "now_ms") = Num(123456)
  /\ Field(RootCommand, "timeout_ms") = Absent
  /\ calls = <<Call("immediate", "", <<-100, 300, 200, 1>>)>>

C13_WaitForwarded ==
  (CommandReturned /\ RootKind = Str("wait") /\ "wait" \in s_handlers)
    => LET duration == Field(RootCommand, "duration")
       IN calls = <<Call("wait", "",
                         <<IF cJSON_IsNumber(duration)
                             THEN ToUint32(duration.n) ELSE 0>>)>>

(***************************************************************************)
(* C14: an unbound capability is a no-op, not an error.  Under every       *)
(* subset of bound capabilities a valid command is accepted (the evaluator *)
(* returns success) whether or not the capability of its kind is bound; it *)
(* makes one call, to that capability, when it is bound and no call at all *)
(* when it is not.  A configuration message with a drive object likewise   *)
(* makes one set_drive_config call when bound and none otherwise.          *)
(***************************************************************************)
ConfigReturned ==
  /\ pc = "returned"
  /\ cJSON_IsObject(root)
  /\ Field(root, "type") = Str("config")
  /\ cJSON_IsObject(Field(root, "drive"))

OneCallIfBound(fn) ==
  IF fn \in s_handlers
    THEN Len(calls) = 1 /\ calls[1].fn = fn
    ELSE calls = <<>>

C14_UnboundIsNoOp ==
  /\ (CommandReturned /\ ValidCommand(RootCommand))
       => rets = <<TRUE>> /\ OneCallIfBound(CapabilityOf(RootKind.s))
  /\ ConfigReturned => OneCallIfBound("set_drive_config")

C14_Witness ==
  /\ CommandReturned
  /\ ValidCommand(RootCommand)
  /\ RootKind = Str("drive")
  /\ s_handlers = Capabilities \ {"drive", "wait"}
  /\ rets = <<TRUE>>
  /\ calls = <<>>

(***************************************************************************)
(* C15: a document whose top-level type is missing, is not a string, or is *)
(* a string other than "command", "sequence" and "config" makes no         *)
(* capability call, whatever else it holds.                                *)
(***************************************************************************)
KnownTypes == {Str("command"), Str("sequence"), Str("config")}

C15_UnknownTypeDropped ==
  (pc = "returned" /\ root # Absent /\ Field(root, "type") \notin KnownTypes)
    => calls = <<>> /\ rets = <<>>

C15_Witness ==
  /\ pc = "returned"
  /\ s_handlers = AllBound
  /\ Field(root, "type") = Str("bogus")
  /\ Field(root, "command") = BareStop
  /\ Field(root, "kind") = Str("stop")
  /\ calls = <<>>

(***************************************************************************)
(* C16: a "command" message whose command field is absent or not an       *)
(* object makes no call, even with a valid kind and its fields at the top  *)
(* level; a bare step of a sequence is evaluated from the step object      *)
(* itself, as if it were the command of a "command" message.               *)
(***************************************************************************)
C16_CommandNeedsWrapperStepsDoNot ==
  /\ (/\ pc = "returned"
      /\ Field(root, "type") = Str("command")
      /\ ~cJSON_IsObject(Field(root, "command")))
       => calls = <<>> /\ rets = <<>>
  /\ (SequenceReturned /\ \A i \in ObjectSteps(RootSteps) :
                             IsBareStep(RootSteps[i]))
       => calls = OnePass(RootSteps, 1)

C16_Witness ==
  /\ pc = "returned"
  /\ s_handlers = AllBound
  /\ Field(root, "type") = Str("command")
  /\ Field(root, "command") = Absent
  /\ Field(root, "kind") = Str("drive")
  /\ Field(root, "speed") = Num(100)
  /\ calls = <<>>

C16_StepWitness ==
  /\ SequenceReturned
  /\ s_handlers = AllBound
  /\ RootSteps = <<BareStop>>
  /\ calls = <<Call("stop", "", <<>>)>>

(***************************************************************************)
(* C17: a "sequence" message whose steps field is absent or not an array   *)
(* is dropped: it makes no call.                                           *)
(***************************************************************************)
C17_StepsMustBeArray ==
  (/\ pc = "returned"
   /\ Field(root, "type") = Str("sequence")
   /\ ~cJSON_IsArray(Field(root, "steps")))
    => calls = <<>> /\ rets = <<>>

C17_Witness ==
  /\ pc = "returned"
  /\ s_handlers = AllBound
  /\ Field(root, "type") = Str("sequence")
  /\ Field(root, "steps") = BareStop
  /\ calls = <<>>

(***************************************************************************)
(* C18: a configuration message with a drive object calls set_drive_config *)
(* exactly once (when it is bound) with a complete snapshot: each of the   *)
(* eleven fields holds the document's value when it is present with the    *)
(* right type (a number for the nine float fields, a boolean for           *)
(* brake_on_stop and enable_speed_control) and 0.0 or false otherwise.     *)
(***************************************************************************)
BooleanFields == {"brake_on_stop", "enable_speed_control"}

Supplied(drive, name) ==
  IF name \in BooleanFields
    THEN cJSON_IsBool(Field(drive, name))
    ELSE cJSON_IsNumber(Field(drive, name))

Snapshot(drive) ==
  [i \in DOMAIN ConfigFields |->
     IF Supplied(drive, ConfigFields[i])
       THEN Field(drive, ConfigFields[i]).n ELSE 0]

C18_CompleteSnapshot ==
  ConfigReturned =>
    IF "set_drive_config" \in s_handlers
      THEN calls = <<Call("set_drive_config", "",
                          Snapshot(Field(root, "drive")))>>
      ELSE calls = <<>>

C18_Witness ==
  /\ ConfigReturned
  /\ Field(root, "drive") =
       Obj([wheel_track_mm |-> Num(120), enable_speed_control |-> Bool(TRUE)])
  /\ calls = <<Call("set_drive_config", "",
                    <<120000, 0, 0, 0, 0, 0, 1, 0, 0, 0, 0>>)>>

(***************************************************************************)
(* C19: configuration snapshots are never merged.  When a configuration    *)
(* message arrives after another one, the snapshot it delivers holds zero  *)
(* (false) in every field it does not supply, also where the snapshot      *)
(* delivered before held a non-zero value.                                 *)
(***************************************************************************)
C19_SnapshotsNotMerged ==
  (ConfigReturned /\ "set_drive_config" \in s_handlers) =>
    /\ Len(calls) = 1
    /\ \A i \in DOMAIN ConfigFields :
         (drive_cfg[i] # 0 /\ ~Supplied(Field(root, "drive"), ConfigFields[i]))
           => calls[1].args[i] = 0

C19_Witness ==
  /\ ConfigReturned
  /\ drive_cfg = <<120000, 30000, 20000, 200000, 360000, 1, 1, 500, 100,
                   1000, 1000>>
  /\ Field(root, "drive") = OnlyField("speed_kp")
  /\ calls = <<Call("set_drive_config", "",
                    <<0, 0, 0, 0, 0, 0, 0, 500, 0, 0, 0>>)>>

(***************************************************************************)
(* C20: a configuration message whose drive field is absent or not an      *)
(* object is a silent no-op: neither set_drive_config nor any other        *)
(* capability is called.                                                   *)
(***************************************************************************)
C20_DriveMustBeObject ==
  (/\ pc = "returned"
   /\ Field(root, "type") = Str("config")
   /\ ~cJSON_IsObject(Field(root, "drive")))
    => calls = <<>> /\ rets = <<>>

C20_Witness ==
  /\ pc = "returned"
  /\ s_handlers = AllBound
  /\ Field(root, "type") = Str("config")
  /\ Field(root, "drive") = Str("none")
  /\ Field(root, "wheel_track_mm") = Num(120)
  /\ calls = <<>>

(***************************************************************************)
(* Vocabulary of the properties about the bytes of a call: the text the    *)
(* engine was given (the first len bytes of the buffer) and its faults.    *)
(***************************************************************************)
BytesReturned == pc = "returned" /\ input.data.ptr = "valid" /\ input.len > 0

GivenText == SubSeq(input.data.bytes, 1, input.len)

Count(text, unit) == Cardinality({i \in DOMAIN text : text[i] = unit})

IsProperPrefix(text, whole) ==
  Len(text) < Len(whole) /\ text = SubSeq(whole, 1, Len(text))

Truncated(text) == \E whole \in CompleteTexts : IsProperPrefix(text, whole)

Unbalanced(text) ==
  \/ Count(text, Punct("{")) # Count(text, Punct("}"))
  \/ Count(text, Punct("[")) # Count(text, Punct("]"))

Malformed(text) ==
  \/ Count(text, Garbled) > 0
  \/ \E whole \in BrokenTexts : text = whole

NonObjectRoot(text) == text[1] # Punct("{")

(***************************************************************************)
(* C21: input that does not decode to a JSON object (truncated text,       *)
(* unbalanced braces, malformed syntax, or a root that is not an object)   *)
(* makes no capability call and has no partial effect.                     *)
(***************************************************************************)
C21_UndecodableInputDropped ==
  (/\ BytesReturned
   /\ \/ Truncated(GivenText)
      \/ Unbalanced(GivenText)
      \/ Malformed(GivenText)
      \/ NonObjectRoot(GivenText))
    => calls = <<>>

(***************************************************************************)
(* C22: the outcome of protocol_handle_command_json(data, len) depends     *)
(* only on the first len bytes of data: the call does what a call does     *)
(* whose buffer ends after len bytes, or goes on with any other bytes.     *)
(***************************************************************************)
Tails == {<<>>, <<Punct("}")>>, <<Garbled>>, <<Punct(",")>> \o StopText}

C22_OnlyGivenBytesRead ==
  BytesReturned =>
    \A tail \in Tails :
      LET other == protocol_handle_command_json_run(Bytes(GivenText \o tail),
                                                    input.len, input.buffer)
      IN calls = other.calls /\ rets = other.rets

C22_Witness ==
  /\ BytesReturned
  /\ s_handlers = AllBound
  /\ input.buffer = "valid"
  /\ input.data.bytes = StopText
  /\ input.len = Len(StopText) - 1
  /\ calls = <<>>

(***************************************************************************)
(* C27: the document is discarded after one dispatch pass.  On every path  *)
(* through protocol_handle_command_json (NULL or empty input, no memory,   *)
(* parse failure, missing type, unknown type, command, sequence, config)   *)
(* the copy of the input, where one was made, is freed exactly once, and a *)
(* tree that was parsed is deleted exactly once before the call returns:   *)
(* none is deleted twice and none is kept.                                 *)
(***************************************************************************)
C27_CopyFreedTreeDeletedOnce ==
  pc = "returned" =>
    /\ heap.frees = heap.mallocs
    /\ heap.deletes = heap.trees
    /\ (BytesReturned /\ input.buffer = "valid")
         => /\ heap.mallocs = 1
            /\ heap.trees = IF root = Absent THEN 0 ELSE 1
    /\ ~(BytesReturned /\ input.buffer = "valid")
         => heap = Heap(0, 0, 0, 0)

C27_Witness ==
  /\ BytesReturned
  /\ input.data.bytes = MissingTypeText
  /\ input.len = Len(MissingTypeText)
  /\ cJSON_IsObject(root)
  /\ Field(root, "type") = Absent
  /\ heap = Heap(1, 1, 1, 1)

(***************************************************************************)
(* C28: processing a message never changes the handler table: the table    *)
(* after protocol_handle_command_json returns is the table before the      *)
(* call, and only protocol_set_handlers (a step taken between calls)       *)
(* writes it.                                                              *)
(***************************************************************************)
C28_TableOnlySetBySetHandlers ==
  [][/\ (pc = "idle" /\ pc' = "returned") => s_handlers' = s_handlers
     /\ s_handlers' # s_handlers =>
          /\ pc = "idle" /\ pc' = "idle"
          /\ UNCHANGED <<clock, root, calls, rets, drive_cfg>>]_vars

C28_Witness ==
  /\ pc = "returned"
  /\ s_handlers = AllBound \ {"drive", "stop"}
  /\ Field(root, "type") = Str("bogus")
  /\ calls = <<>>
(***************************************************************************)
(* C23.  Errors are local and non-fatal across messages.  For any series   *)
(* of messages delivered one after another, whenever the entry point has   *)
(* returned from a message, the capability calls and results it produced   *)
(* are those of the same message delivered alone (first, under the same    *)
(* table and clock): no earlier message, dropped, malformed or good,       *)
(* changes the outcome of a later one.                                     *)
(***************************************************************************)
SameAsAlone ==
  /\ alone.set
  /\ input = alone.input
  /\ s_handlers = alone.handlers
  /\ clock = alone.clock

C23_ErrorsAreLocalAcrossMessages ==
  (pc = "returned" /\ SameAsAlone) =>
    /\ calls = alone.calls
    /\ rets = alone.rets

(* The radius-only configuration is delivered again after a configuration  *)
(* that set other fields, and its snapshot is the one it produced alone.   *)
C23_Witness ==
  /\ pc = "returned"
  /\ SameAsAlone
  /\ GivenText = RadiusConfigText
  /\ drive_cfg[1] = 120000
  /\ Len(calls) = 1
  /\ calls[1].args[1] = 0
  /\ calls[1].args[2] = 33000

(***************************************************************************)
(* C24 as stated.  Encoding then decoding an immediate command is a round  *)
(* trip: the text the encoder produces for (left_frac, right_frac,         *)
(* timeout_ms, now_ms), fed to the entry point with immediate bound,       *)
(* invokes immediate exactly once, with left and right within 0.001 of the *)
(* inputs, the same timeout_ms, and now_ms taken from the clock.           *)
(***************************************************************************)
Distance(a, b) == IF a >= b THEN a - b ELSE b - a

RoundTrip(e) ==
  /\ Len(calls) = 1
  /\ calls[1].fn = "immediate"
  /\ Distance(10 * calls[1].args[1], e.left_frac) <= 10
  /\ Distance(10 * calls[1].args[2], e.right_frac) <= 10
  /\ calls[1].args[3] = e.timeout_ms
  /\ calls[1].args[4] = clock

DecodedFrom(e) ==
  /\ pc = "returned"
  /\ input.data.ptr = "valid"
  /\ input.data.bytes = Encoded(e)
  /\ input.len = Len(Encoded(e))
  /\ "immediate" \in s_handlers

C24_RoundTripAlways ==
  \A e \in EncoderInputs : DecodedFrom(e) => RoundTrip(e)

(***************************************************************************)
(* C24, amended.  When the buffer holds the whole document and its         *)
(* terminator, the round trip holds as stated; when it does not, the text  *)
(* is cut short and decoding it makes no call at all.                      *)
(***************************************************************************)
Whole(e) == Encoded(e) = Encoded([e EXCEPT !.buffer_size = 40])

C24_RoundTripWhenBufferHoldsDocument ==
  \A e \in EncoderInputs :
    DecodedFrom(e) => IF Whole(e) THEN RoundTrip(e) ELSE calls = <<>>

(* 0.3006 is encoded as 0.301 and -1.2346 as -1.235; the text says the     *)
(* time is 123456 and the clock says 1.                                    *)
C24_Witness ==
  /\ DecodedFrom([buffer_size |-> 30, left_frac |-> 3006,
                  right_frac |-> -12346, timeout_ms |-> 200,
                  now_ms |-> 123456])
  /\ clock = 1
  /\ calls = <<Call("immediate", "", <<301, -1235, 200, 1>>)>>
(***************************************************************************)
(* Vocabulary of the transport's properties: the callback is bound, a      *)
(* message is being reassembled or none is, the message on the wire has    *)
(* arrived in order so far, in part or whole.                              *)
(***************************************************************************)
CommandBound == "on_command_json" \in mqtt_handlers

Reassembling == s_rx_buffer.ptr # "NULL"

Idle == s_rx_buffer = NoBuffer /\ s_rx_buffer_len = 0 /\ s_rx_expected_len = 0

InPart == arrived.total > 0 /\ Len(arrived.bytes) < arrived.total

InWhole == arrived.total > 0 /\ Len(arrived.bytes) = arrived.total

(***************************************************************************)
(* C25.  The transport hands over only complete messages: when the         *)
(* fragments of one message arrive in order (the first at offset 0, each   *)
(* next one at the offset reached, their lengths summing to total_data_len *)
(* <= 8192) and the callback is bound, on_command_json is called on the    *)
(* last fragment, once, with the concatenation of the fragments and the    *)
(* total length, and is not called on the fragments before it.             *)
(***************************************************************************)
C25_OnlyCompleteMessagesDelivered ==
  CommandBound =>
    /\ InPart => delivered = <<>>
    /\ InWhole => delivered = <<Command(arrived.bytes, arrived.total)>>

(***************************************************************************)
(* C29.  Between two data events the reassembly state is consistent: the   *)
(* receive buffer is absent exactly when the expected length is 0, and     *)
(* then the received length is 0; a buffer that is present holds the bytes *)
(* received, more than none and fewer than expected, and no more than 8192 *)
(* are expected.  The number of receive buffers allocated and not freed is *)
(* 1 when the buffer is present and 0 when it is not.                      *)
(***************************************************************************)
C29_ReassemblyStateConsistent ==
  /\ (s_rx_buffer.ptr = "NULL") <=> (s_rx_expected_len = 0)
  /\ s_rx_buffer.ptr = "NULL" => s_rx_buffer_len = 0
  /\ Reassembling =>
       /\ 0 < s_rx_buffer_len
       /\ s_rx_buffer_len < s_rx_expected_len
       /\ s_rx_expected_len <= kMaxJsonLen
       /\ Len(s_rx_buffer.bytes) = s_rx_buffer_len
  /\ rx_allocated = IF Reassembling THEN 1 ELSE 0

(* Two of three bytes are buffered, after two fragments.                   *)
C29_Witness ==
  /\ Reassembling
  /\ s_rx_buffer_len = 2
  /\ s_rx_expected_len = 3
  /\ event.current_data_offset = 1
  /\ s_rx_buffer.bytes = <<<<1, 1>>, <<1, 2>>>>

(***************************************************************************)
(* C30.  With the callback bound, a fragment that carries bytes and comes  *)
(* at a non-zero offset other than the number of bytes received so far, or *)
(* whose bytes would exceed the expected total, discards the message being *)
(* reassembled (the buffer is freed, the state is reset) without calling   *)
(* on_command_json; and while no message is being reassembled, a fragment  *)
(* at a non-zero offset changes nothing and calls nothing: only a fragment *)
(* at offset 0 starts a message.                                           *)
(***************************************************************************)
Misplaced(ev) ==
  /\ ev.current_data_offset # 0
  /\ \/ ev.current_data_offset # s_rx_buffer_len
     \/ s_rx_buffer_len + ev.data_len > s_rx_expected_len

C30_MisplacedFragmentDiscards ==
  [][mqtt_handlers' = mqtt_handlers =>
       /\ (CommandBound /\ Reassembling /\ event'.data_len > 0
             /\ event'.total_data_len > 0 /\ Misplaced(event')) =>
            /\ Idle'
            /\ delivered' = <<>>
            /\ rx_traffic' = [mallocs |-> 0, frees |-> 1]
       /\ (CommandBound /\ event'.current_data_offset = 0
             /\ event'.total_data_len > 0
             /\ event'.data_len > event'.total_data_len) =>
            /\ Idle'
            /\ delivered' = <<>>
            /\ rx_allocated' = 0
       /\ (~Reassembling /\ event'.current_data_offset # 0) =>
            /\ UNCHANGED <<s_rx_buffer, s_rx_buffer_len, s_rx_expected_len,
                           rx_allocated>>
            /\ delivered' = <<>>]_vars

(* A fragment of two bytes at offset 2 has just discarded a message.       *)
C30_Witness ==
  /\ CommandBound
  /\ event.current_data_offset = 2
  /\ event.data_len = 2
  /\ event.total_data_len = 3
  /\ rx_traffic = [mallocs |-> 0, frees |-> 1]
  /\ Idle
  /\ delivered = <<>>
(***************************************************************************)
(* C26.  wifi_init_sta blocks until an address is obtained or the retry    *)
(* limit is hit, and then returns: in every interleaving of the event      *)
(* handlers with wifi_init_sta, once a got-IP event or a give-up has       *)
(* occurred after the connection attempt was issued, wifi_init_sta         *)
(* eventually returns.                                                     *)
(***************************************************************************)
C26_WaiterEventuallyReturns == woken ~> (wifi_pc = "done")

(***************************************************************************)
(* C31.  A fragment at offset 0 that arrives while another message is      *)
(* being reassembled discards the partial message and starts the new one.  *)
(* With the callback bound and a fragment that carries bytes: the old      *)
(* buffer is freed; whatever is handed over in that step is the new        *)
(* fragment alone; a buffer present afterwards holds the new fragment      *)
(* alone and expects the new total; and the new message is started unless  *)
(* its total is refused, its first fragment is longer than its total, or   *)
(* no buffer could be allocated.  From then on a buffer grows only by the  *)
(* fragment that arrives, and what is handed over is the buffer with the   *)
(* last fragment added, so nothing of the partial message is delivered.    *)
(***************************************************************************)
Restarting(ev) ==
  /\ CommandBound
  /\ Reassembling
  /\ ev.current_data_offset = 0
  /\ ev.data_len > 0
  /\ ev.total_data_len > 0

C31_RestartDiscardsPartialMessage ==
  [][mqtt_handlers' = mqtt_handlers =>
       /\ Restarting(event') =>
            /\ rx_traffic'.frees >= 1
            /\ \A i \in DOMAIN delivered' :
                 delivered'[i] = Command(event'.data, event'.data_len)
            /\ Reassembling' =>
                 /\ s_rx_buffer'.bytes = event'.data
                 /\ s_rx_expected_len' = event'.total_data_len
            /\ (event'.total_data_len <= kMaxJsonLen
                  /\ event'.data_len < event'.total_data_len) =>
                 \/ Reassembling'
                 \/ Idle' /\ rx_traffic'.mallocs = 0
       /\ event'.current_data_offset # 0 =>
            /\ (Reassembling' /\ s_rx_buffer' # s_rx_buffer) =>
                 s_rx_buffer'.bytes = s_rx_buffer.bytes \o event'.data
            /\ \A i \in DOMAIN delivered' :
                 delivered'[i].data = s_rx_buffer.bytes \o event'.data]_vars

(* The first byte of message 2 has replaced a partial message.             *)
C31_Witness ==
  /\ CommandBound
  /\ event.current_data_offset = 0
  /\ rx_traffic = [mallocs |-> 1, frees |-> 1]
  /\ s_rx_buffer = [ptr |-> "valid", bytes |-> <<<<2, 1>>>>]
  /\ s_rx_expected_len = 3
  /\ delivered = <<>>

(***************************************************************************)
(* C32.  A message whose total_data_len exceeds 8192 is never handed to    *)
(* on_command_json and none of its fragments is buffered: with the         *)
(* callback bound, its first fragment (offset 0) leaves no buffer, makes   *)
(* no allocation and no call, and each following fragment (non-zero        *)
(* offset, the same total) then finds no message being reassembled and     *)
(* changes nothing.  Every length passed to on_command_json is between 1   *)
(* and 8192 and is the number of bytes handed over.                        *)
(***************************************************************************)
TooLong(ev) == ev.data_len > 0 /\ ev.total_data_len > kMaxJsonLen

C32_TooLongNeverDelivered ==
  [][mqtt_handlers' = mqtt_handlers =>
       /\ (CommandBound /\ TooLong(event')
             /\ event'.current_data_offset = 0) =>
            /\ Idle'
            /\ delivered' = <<>>
            /\ rx_traffic'.mallocs = 0
            /\ rx_allocated' = 0
       /\ (TooLong(event) /\ TooLong(event') /\ Idle
             /\ event'.current_data_offset # 0) =>
            /\ Idle'
            /\ delivered' = <<>>
            /\ rx_traffic' = NoTraffic
       /\ \A i \in DOMAIN delivered' :
            /\ delivered'[i].len >= 1
            /\ delivered'[i].len <= kMaxJsonLen
            /\ delivered'[i].len = Len(delivered'[i].data)]_vars

(* The first fragment of a message of 8193 bytes arrived while another     *)
(* message was being reassembled: that one is freed and nothing is kept.   *)
C32_Witness ==
  /\ CommandBound
  /\ event.total_data_len = kMaxJsonLen + 1
  /\ event.current_data_offset = 0
  /\ event.data_len = 2
  /\ rx_traffic = [mallocs |-> 0, frees |-> 1]
  /\ Idle
  /\ delivered = <<>>

(***************************************************************************)
(* C33.  On every connected event, in this order: the debug message        *)
(* "connected" is published, on_connected is called if it is bound, and    *)
(* the client subscribes to the command topic with QoS 1; this is so       *)
(* whatever came before (a first connection or a reconnection after a      *)
(* disconnected event).  On every disconnected event on_disconnected is    *)
(* called if it is bound, and nothing else is done.                        *)
(***************************************************************************)
Subscribed ==
  Effect("esp_mqtt_client_subscribe", "CONFIG_COMMAND_TOPIC", "", 1)

C33_ConnectedPublishesNotifiesSubscribes ==
  [][mqtt_handlers' = mqtt_handlers =>
       /\ event'.event_id = "MQTT_EVENT_CONNECTED" =>
            mqtt_out' =
              IF "on_connected" \in mqtt_handlers
                THEN <<Effect("esp_mqtt_client_publish", "robot/debug",
                              "connected", 0),
                       Effect("on_connected", "", "", 0), Subscribed>>
                ELSE <<Effect("esp_mqtt_client_publish", "robot/debug",
                              "connected", 0), Subscribed>>
       /\ event'.event_id = "MQTT_EVENT_DISCONNECTED" =>
            mqtt_out' =
              IF "on_disconnected" \in mqtt_handlers
                THEN <<Effect("on_disconnected", "", "", 0)>> ELSE <<>>]_vars

(* A connected event was handled with on_connected bound, while a message  *)
(* was being reassembled.                                                  *)
C33_Witness ==
  /\ event.event_id = "MQTT_EVENT_CONNECTED"
  /\ Len(mqtt_out) = 3
  /\ mqtt_out[2].op = "on_connected"
  /\ mqtt_out[3] = Subscribed
  /\ Reassembling

(* A disconnected event was handled with on_disconnected bound.            *)
C33_DisconnectedWitness ==
  /\ event.event_id = "MQTT_EVENT_DISCONNECTED"
  /\ mqtt_out = <<Effect("on_disconnected", "", "", 0)>>

(***************************************************************************)
(* The properties of the Wi-Fi station.  A disconnect event is handled in  *)
(* the step that adds one to the retry counter; the handler's give, when   *)
(* it found the handle set, is the step that takes the event loop task     *)
(* out of "give".                                                          *)
(***************************************************************************)
DisconnectHandled == s_retry_num' = s_retry_num + 1

(* C34: the retry counter counts the disconnect events since the last      *)
(* got-IP event or since start.  A disconnect event that brings it to at   *)
(* most WIFI_CONN_MAX_RETRY calls on_wifi_connecting (when bound) and then *)
(* esp_wifi_connect; one that brings it beyond calls on_wifi_disconnected  *)
(* (when bound), never esp_wifi_connect, and goes on to give the semaphore *)
(* when wifi_init_sta waits on it, after which the semaphore holds a       *)
(* token.  The counter changes in no other way than by one up or to zero.  *)
C34_ReconnectionIsBounded ==
  [][/\ DisconnectHandled =>
          IF s_retry_num' <= WIFI_CONN_MAX_RETRY
            THEN /\ wifi_out' = Notify("on_wifi_connecting")
                                   \o <<"esp_wifi_connect">>
                 /\ ev_pc' = "idle"
            ELSE /\ wifi_out' = Notify("on_wifi_disconnected")
                 /\ (wifi_pc = "waiting" => ev_pc' = "give")
                 /\ (s_ip_sem = "NULL" => ev_pc' = "idle")
     /\ (ev_pc = "give" /\ ev_pc' = "idle" /\ ip_sem.state = "created")
          => (ip_sem'.tokens = 1 /\ wifi_out' = wifi_out \o <<"xSemaphoreGive">>)
     /\ s_retry_num' \in {s_retry_num, s_retry_num + 1, 0}
     /\ (s_retry_num' = 0 /\ s_retry_num # 0) => got_ip_seen'
    ]_vars

C34_Witness ==
  /\ s_retry_num = WIFI_CONN_MAX_RETRY + 2
  /\ wifi_out = <<"on_wifi_disconnected", "xSemaphoreGive">>
  /\ ip_sem = [state |-> "created", tokens |-> 1, giver |-> "give_up"]
  /\ wifi_pc = "waiting"

(* C35: a got-IP event sets the retry counter to 0 and calls               *)
(* on_wifi_connected (when bound), in the step that handles the event when *)
(* the semaphore handle is not set and else in the step of the give; and a *)
(* disconnect event that finds the counter below WIFI_CONN_MAX_RETRY, as   *)
(* the first five after a got-IP event do, calls esp_wifi_connect.         *)
C35_GotIpResetsRetries ==
  [][/\ (ev_pc = "idle" /\ ev_pc' = "give_ip") => s_retry_num' = 0
     /\ (ev_pc = "idle" /\ ev_pc' = "idle" /\ got_ip_seen' /\ ~got_ip_seen)
          => /\ s_retry_num' = 0
             /\ wifi_out' = Notify("on_wifi_connected")
     /\ (ev_pc = "give_ip" /\ ev_pc' # "give_ip")
          => /\ s_retry_num' = 0
             /\ wifi_out' = <<"xSemaphoreGive">>
                              \o Notify("on_wifi_connected")
     /\ (DisconnectHandled /\ s_retry_num < WIFI_CONN_MAX_RETRY)
          => wifi_out' = Notify("on_wifi_connecting")
                           \o <<"esp_wifi_connect">>
    ]_vars

(* C36: when wifi_init_sta has returned after waiting, it returned ESP_OK  *)
(* only if a got-IP event was handled, and it returned ESP_FAIL if the     *)
(* token that ended its wait was given by the handler that gave up.        *)
C36_ReturnTellsHowTheWaitEnded ==
  (wifi_pc = "done" /\ wait_ended_by # "none")
    => /\ wifi_ret = "ESP_OK" => got_ip_seen
       /\ wait_ended_by = "give_up" => wifi_ret = "ESP_FAIL"

(* C37: no handler gives the semaphore once it has been deleted.           *)
C37_NoGiveAfterDelete ==
  [][(ev_pc \in {"give", "give_ip"} /\ ev_pc' # ev_pc)
       => ip_sem.state # "deleted"]_vars

(* C39: a turn command whose speed is absent or a number not above 0 and   *)
(* whose duration is absent or a number not above 0 (0 or negative) is     *)
(* rejected and makes no call.                                             *)
NotAbove0(item) == item = Absent \/ (cJSON_IsNumber(item) /\ item.n <= 0)

C39_TurnRuleOnDocumentValues ==
  (/\ CommandReturned
   /\ RootKind = Str("turn")
   /\ NotAbove0(Field(RootCommand, "speed"))
   /\ NotAbove0(Field(RootCommand, "duration")))
    => rets = <<FALSE>> /\ calls = <<>>

(* C38: a valid command, or a configuration message, makes its one call    *)
(* exactly when its capability is bound in the table handed to the last    *)
(* call of protocol_set_handlers, whatever was installed before; and after *)
(* protocol_set_handlers(NULL) no message makes a call.                    *)
BoundInLast(fn) == last_handlers.ptr # "NULL" /\ fn \in last_handlers.table

OneCallIfBoundInLast(fn) ==
  IF BoundInLast(fn)
    THEN Len(calls) = 1 /\ calls[1].fn = fn
    ELSE calls = <<>>

C38_SetHandlersReplacesTable ==
  /\ (CommandReturned /\ ValidCommand(RootCommand))
       => OneCallIfBoundInLast(CapabilityOf(RootKind.s))
  /\ ConfigReturned => OneCallIfBoundInLast("set_drive_config")
  /\ (pc = "returned" /\ last_handlers.ptr = "NULL") => calls = <<>>

(* set_drive_config was called under an earlier table, NULL was installed  *)
(* since, and a configuration message has now called nothing.              *)
C38_Witness ==
  /\ drive_cfg # ZeroConfig
  /\ last_handlers.ptr = "NULL"
  /\ ConfigReturned
  /\ calls = <<>>

====
